---- MODULE Spec2Model ----
(***************************************************************************)
(* Longitudinal follow-up engine of chenqz-hub/Followup:                   *)
(*   src/src/longitudinal_importer.py   (sheet labels, record assembly)    *)
(*   src/src/longitudinal_processor.py  (event extraction, first           *)
(*                                       occurrences, endpoint outcome)    *)
(*                                                                         *)
(* Python values are represented as follows.                               *)
(*   None                       <<>>                                       *)
(*   datetime.date(y, m, d)     <<y, m, d>>                                *)
(*   Optional[int] n            <<n>>  (None is <<>>)                      *)
(*   str                        the sequence of its characters; a Chinese  *)
(*                              character is written as its pinyin token:  *)
(*                              "di" U+7B2C, "ge" U+4E2A, "yue" U+6708,    *)
(*                              "yi" U+4E00, "san" U+4E09, "liu" U+516D,   *)
(*                              "sui" U+968F, "fang" U+8BBF, "biao" U+8868 *)
(*                              "ji" U+57FA, "ben" U+672C, "xinx" U+4FE1,  *)
(*                              "xi" U+606F                                *)
(*   float                      [whole |-> n, frac |-> digits] with the    *)
(*                              trailing zeros of the fraction removed     *)
(* Cell strings are never empty: the importer turns blank cells into None  *)
(* (longitudinal_importer.py lines 135-140).                               *)
(***************************************************************************)
EXTENDS Integers, Sequences, FiniteSets, TLC

VARIABLES
    pc,               \* position in the pipeline of the specification at hand
    endpoint,         \* LongitudinalEventProcessor.endpoint
    patient_record,   \* the LongitudinalPatientRecord (Timeline) being built / processed
    followup_record,  \* the LongitudinalFollowupRecord returned by process_followup
    time_point,       \* a single TimePointData handed to the Event Extractor
    events_list,      \* result of _identify_all_events(time_point)
    single_event,     \* result of _identify_event(time_point)
    sheet_data,       \* LongitudinalDataImporter.sheet_data: the sheets in dict order
    sheet_name,       \* a sheet name handed to _extract_time_point_info
    time_point_info,  \* result of _extract_time_point_info(sheet_name)
    patient_records,  \* the list import_longitudinal_data returns / process_batch takes
    followup_records, \* the list process_batch returns
    event_type_value, \* a cell handed to _parse_event_codes
    event_types,      \* result of _parse_event_codes(event_type_value)
    clock,            \* datetime.now() as the processor last read it
    runs,             \* the process_batch calls made on the processor so far
    excel_file,       \* LongitudinalDataImporter.excel_file
    file_path,        \* the argument of the last load_excel_file call
    event_infos,      \* the EventInfo objects constructed so far, in order
    first_event_result \* what find_first_event was given and returned

vars == <<pc, endpoint, patient_record, followup_record, time_point, events_list,
          single_event, sheet_data, sheet_name, time_point_info, patient_records,
          followup_records, event_type_value, event_types, clock, runs,
          excel_file, file_path, event_infos, first_event_result>>

procVars    == <<endpoint, patient_record, followup_record>>
extractVars == <<time_point, events_list, single_event>>
importVars  == <<sheet_data, sheet_name, time_point_info>>
batchVars   == <<patient_records, followup_records>>
codeVars    == <<event_type_value, event_types>>
runVars     == <<clock, runs>>
fileVars    == <<excel_file, file_path>>
legacyVars  == <<event_infos, first_event_result>>

None == <<>>

(***************************************************************************)
(* Bounds of the model.                                                    *)
(***************************************************************************)
MaxTimePoints == 2    \* time points appended to one Timeline
MaxSheets == 2        \* sheets of one workbook

(***************************************************************************)
(* datetime.date arithmetic: (a - b).days and a < b.                       *)
(***************************************************************************)
IsLeap(y) == (y % 4 = 0) /\ ((y % 100 # 0) \/ (y % 400 = 0))

DaysBeforeYear(y) ==
    LET p == y - 1 IN p * 365 + (p \div 4) - (p \div 100) + (p \div 400)

DaysInMonth(y, m) ==
    IF m = 2 THEN (IF IsLeap(y) THEN 29 ELSE 28)
    ELSE IF m \in {4, 6, 9, 11} THEN 30 ELSE 31

RECURSIVE DaysBeforeMonth(_, _)
DaysBeforeMonth(y, m) ==
    IF m = 1 THEN 0 ELSE DaysBeforeMonth(y, m - 1) + DaysInMonth(y, m - 1)

ToOrdinal(dt) == DaysBeforeYear(dt[1]) + DaysBeforeMonth(dt[1], dt[2]) + dt[3]

\* A day count that includes both end days
DaysBetween_Inclusive(a, b) == ToOrdinal(a) - ToOrdinal(b) + 1

\* (a - b).days
DaysBetween(a, b) == ToOrdinal(a) - ToOrdinal(b)

\* a < b on dates
DateLess(a, b) == ToOrdinal(a) < ToOrdinal(b)

(***************************************************************************)
(* str and float: str.strip, str.lower, float(str).                        *)
(***************************************************************************)
Digits == {"0", "1", "2", "3", "4", "5", "6", "7", "8", "9"}

DigitVal(c) ==
    CASE c = "0" -> 0 [] c = "1" -> 1 [] c = "2" -> 2 [] c = "3" -> 3 [] c = "4" -> 4
      [] c = "5" -> 5 [] c = "6" -> 6 [] c = "7" -> 7 [] c = "8" -> 8 [] c = "9" -> 9

RECURSIVE IntOf(_)
IntOf(s) == IF s = <<>> THEN 0 ELSE IntOf(SubSeq(s, 1, Len(s) - 1)) * 10 + DigitVal(s[Len(s)])

IsDigitStr(s) == s # <<>> /\ \A i \in 1..Len(s) : s[i] \in Digits

RECURSIVE Strip(_)
Strip(s) ==
    IF s = <<>> THEN s
    ELSE IF s[1] = " " THEN Strip(Tail(s))
    ELSE IF s[Len(s)] = " " THEN Strip(SubSeq(s, 1, Len(s) - 1))
    ELSE s

LowerChar(c) ==
    CASE c = "N" -> "n" [] c = "A" -> "a" [] c = "O" -> "o" [] c = "E" -> "e"
      [] c = "C" -> "c" [] c = "T" -> "t" [] c = "M" -> "m" [] c = "B" -> "b"
      [] c = "G" -> "g" [] OTHER -> c

Lower(s) == [i \in 1..Len(s) |-> LowerChar(s[i])]

RECURSIVE DropTrailingZeros(_)
DropTrailingZeros(s) ==
    IF s # <<>> /\ s[Len(s)] = "0" THEN DropTrailingZeros(SubSeq(s, 1, Len(s) - 1)) ELSE s

\* float(s) for the decimal notations digits, digits.digits and the word nan;
\* any other text raises ValueError (ok = FALSE).
FloatOf(s) ==
    LET dots == {i \in 1..Len(s) : s[i] = "."} IN
    IF IsDigitStr(s)
    THEN [ok |-> TRUE, nan |-> FALSE, whole |-> IntOf(s), frac |-> <<>>]
    ELSE IF Cardinality(dots) = 1
    THEN LET d == CHOOSE i \in dots : TRUE
             w == SubSeq(s, 1, d - 1)
             f == SubSeq(s, d + 1, Len(s))
         IN IF IsDigitStr(w) /\ (f = <<>> \/ IsDigitStr(f))
            THEN [ok |-> TRUE, nan |-> FALSE, whole |-> IntOf(w), frac |-> DropTrailingZeros(f)]
            ELSE [ok |-> FALSE, nan |-> FALSE, whole |-> 0, frac |-> <<>>]
    ELSE IF Lower(s) = <<"n", "a", "n">>
    THEN [ok |-> TRUE, nan |-> TRUE, whole |-> 0, frac |-> <<>>]
    ELSE [ok |-> FALSE, nan |-> FALSE, whole |-> 0, frac |-> <<>>]

\* x in [1, 1.0] for an Optional[float] x
IsOne(code) == code # None /\ ~code[1].nan /\ code[1].whole = 1 /\ code[1].frac = <<>>

\* LongitudinalEventProcessor._try_parse_code
try_parse_code(value) ==
    IF value = None THEN None
    ELSE LET val_str == Strip(value) IN
         IF val_str # <<>> /\ Lower(val_str) \notin {<<"n", "a", "n">>, <<"n", "o", "n", "e">>}
         THEN LET f == FloatOf(val_str) IN
              IF f.ok THEN <<[nan |-> f.nan, whole |-> f.whole, frac |-> f.frac]>> ELSE None
         ELSE None

(***************************************************************************)
(* LongitudinalEventProcessor: code tables.                                *)
(* Further pinyin tokens: "si" U+6B7B, "wang" U+4EA1, "xin" U+5FC3,        *)
(* "xue" U+8840, "guan" U+7BA1, "shi" U+4E8B, "jian" U+4EF6,               *)
(* "guanx" U+51A0, "mai" U+8109, "jie" U+4ECB, "ru" U+5165, "da" U+642D,   *)
(* "qiao" U+6865.                                                          *)
(***************************************************************************)
EVENT_TYPE_KEYWORDS(event_type) ==
    CASE event_type = "death" ->
        << <<"si", "wang">>,
          <<"d", "e", "a", "t", "h">>,
          <<"d", "e", "c", "e", "a", "s", "e", "d">> >>
      [] event_type = "cardiovascular_event" ->
        << <<"xin", "xue", "guan">>,
          <<"c", "a", "r", "d", "i", "o", "v", "a", "s", "c", "u", "l", "a", "r">>,
          <<"shi", "jian">>,
          <<"e", "v", "e", "n", "t">>,
          <<"a", "c", "u", "t", "e">>,
          <<"m", "y", "o", "c", "a", "r", "d", "i", "a", "l">>,
          <<"i", "n", "f", "a", "r", "c", "t", "i", "o", "n">>,
          <<"s", "t", "r", "o", "k", "e">>,
          <<"u", "n", "s", "t", "a", "b", "l", "e">> >>
      [] event_type = "coronary_intervention" ->
        << <<"guanx", "mai">>,
          <<"c", "o", "r", "o", "n", "a", "r", "y">>,
          <<"i", "n", "t", "e", "r", "v", "e", "n", "t", "i", "o", "n">>,
          <<"a", "n", "g", "i", "o", "g", "r", "a", "p", "h", "y">>,
          <<"s", "t", "e", "n", "t">>,
          <<"a", "n", "g", "i", "o", "p", "l", "a", "s", "t", "y">>,
          <<"jie", "ru">> >>
      [] event_type = "coronary_bypass" ->
        << <<"da", "qiao">>,
          <<"b", "y", "p", "a", "s", "s">>,
          <<"C", "A", "B", "G">> >>
      [] OTHER -> <<>>

\* ADVERSE_EVENT_TYPE_CODES.get(code) for a float code: Optional[str]
ADVERSE_EVENT_TYPE_CODES(code) ==
    IF code.nan \/ code.frac # <<>> THEN None
    ELSE CASE code.whole = 1 -> <<"cardiac_death">>
           [] code.whole = 2 -> <<"nonfatal_mi">>
           [] code.whole = 3 -> <<"target_vessel_revascularization">>
           [] code.whole = 4 -> <<"heart_failure">>
           [] code.whole = 5 -> <<"angina">>
           [] code.whole = 6 -> <<"cardiac_hospitalization">>
           [] OTHER -> None

\* The candidate overflow field names, in the order they are tried; the first
\* two stand for the Chinese column names of the code book.
possible_keys == <<"adverse_event_what_1", "adverse_event_what", "adverse_event_type">>

(***************************************************************************)
(* Substring search: kw in text.                                           *)
(***************************************************************************)
Contains(text, kw) ==
    \E i \in 1..(Len(text) - Len(kw) + 1) : SubSeq(text, i, i + Len(kw) - 1) = kw

\* LongitudinalEventProcessor._contains_keywords
contains_keywords(text, event_type) ==
    LET keywords == EVENT_TYPE_KEYWORDS(event_type) IN
    /\ text # <<>>
    /\ \E k \in 1..Len(keywords) : Contains(Lower(text), Lower(keywords[k]))

\* LongitudinalEventProcessor._get_adverse_event_code
get_adverse_event_code(tp) ==
    LET found == {i \in 1..Len(possible_keys) :
                     /\ possible_keys[i] \in DOMAIN tp.raw_data
                     /\ tp.raw_data[possible_keys[i]] # None}
    IN IF found = {} THEN None
       ELSE LET first == CHOOSE i \in found : \A j \in found : i <= j
            IN try_parse_code(tp.raw_data[possible_keys[first]])

(***************************************************************************)
(* Event Extractor: LongitudinalEventProcessor._identify_all_events.       *)
(* An event is <<event_type, event_date>>.                                 *)
(***************************************************************************)
\* step 2: the decoded event_types list
CodedEvents(tp) ==
    IF tp.event_types # <<>> /\ tp.visit_date # None
    THEN [i \in 1..Len(tp.event_types) |-> <<tp.event_types[i], tp.visit_date>>]
    ELSE <<>>

\* step 3: the back-compat "any cardiovascular event" flag, tried when step 2
\* emitted nothing
LegacyEvents(tp) ==
    LET cv_event_value == try_parse_code(tp.cardiovascular_event) IN
    IF IsOne(cv_event_value)
    THEN LET adverse_event_code == get_adverse_event_code(tp) IN
         IF adverse_event_code # None
         THEN LET event_type_name == ADVERSE_EVENT_TYPE_CODES(adverse_event_code[1]) IN
              IF event_type_name # None /\ tp.visit_date # None
              THEN << <<event_type_name[1], tp.visit_date>> >>
              ELSE <<>>
         ELSE IF tp.visit_date # None
              THEN << <<"cardiovascular_event", tp.visit_date>> >>
              ELSE <<>>
    ELSE <<>>

\* A step 4 that dates the bypass at the visit whatever bypass_date says
BypassEvents_AtVisitDate(tp) ==
    IF tp.coronary_bypass # None /\ IsOne(try_parse_code(tp.coronary_bypass))
    THEN IF tp.visit_date # None THEN << <<"coronary_bypass", tp.visit_date>> >> ELSE <<>>
    ELSE <<>>

\* step 4: coronary bypass
BypassEvents(tp) ==
    IF tp.coronary_bypass # None /\ IsOne(try_parse_code(tp.coronary_bypass))
    THEN LET bypass_date == IF tp.bypass_date # None THEN tp.bypass_date ELSE tp.visit_date
         IN IF bypass_date # None THEN << <<"coronary_bypass", bypass_date>> >> ELSE <<>>
    ELSE <<>>

\* step 5: coronary intervention
InterventionEvents(tp) ==
    IF tp.coronary_intervention # None /\ IsOne(try_parse_code(tp.coronary_intervention))
    THEN LET interv_date == IF tp.intervention_date # None THEN tp.intervention_date
                            ELSE tp.visit_date
         IN IF interv_date # None THEN << <<"coronary_intervention", interv_date>> >> ELSE <<>>
    ELSE <<>>

\* An extractor that goes on to the other fields after a death
identify_all_events_NoEarlyReturn(tp) ==
    LET coded == CodedEvents(tp)
        clinical == IF coded = <<>> THEN LegacyEvents(tp) ELSE coded
        death == IF tp.death_date # None THEN << <<"death", tp.death_date>> >> ELSE <<>>
    IN death \o clinical \o BypassEvents(tp) \o InterventionEvents(tp)

identify_all_events(tp) ==
    IF tp.death_date # None
    THEN << <<"death", tp.death_date>> >>
    ELSE LET coded == CodedEvents(tp)
             clinical == IF coded = <<>> THEN LegacyEvents(tp) ELSE coded
         IN clinical \o BypassEvents(tp) \o InterventionEvents(tp)

(***************************************************************************)
(* LongitudinalEventProcessor._identify_event: the single-event variant.   *)
(* The result is <<Optional[str], Optional[date]>>.                        *)
(***************************************************************************)
ProcedureDate(own_date, visit_date) == IF own_date # None THEN own_date ELSE visit_date

identify_event(tp) ==
    LET cv == tp.cardiovascular_event
        val_str == IF cv = None THEN <<>> ELSE Strip(cv)
        parsed == FloatOf(val_str)
        raised == cv # None /\ val_str # <<>> /\ ~parsed.ok
        cv_is_one == /\ cv # None /\ val_str # <<>> /\ parsed.ok
                     /\ ~parsed.nan /\ parsed.whole = 1 /\ parsed.frac = <<>>
        adverse_event_code == get_adverse_event_code(tp)
        event_type_name == IF adverse_event_code = None THEN None
                           ELSE ADVERSE_EVENT_TYPE_CODES(adverse_event_code[1])
    IN
    IF tp.death_date # None THEN << <<"death">>, tp.death_date >>
    ELSE IF tp.event_types # <<>> THEN << <<tp.event_types[1]>>, tp.visit_date >>
    ELSE IF raised /\ contains_keywords(cv, "cardiovascular_event")
    THEN << <<"cardiovascular_event">>, tp.visit_date >>
    ELSE IF cv_is_one
    THEN (IF event_type_name # None THEN <<event_type_name, tp.visit_date>>
          ELSE << <<"cardiovascular_event">>, tp.visit_date >>)
    ELSE IF /\ tp.coronary_bypass # None
            /\ \/ IsOne(try_parse_code(tp.coronary_bypass))
               \/ contains_keywords(tp.coronary_bypass, "coronary_bypass")
    THEN << <<"coronary_bypass">>, ProcedureDate(tp.bypass_date, tp.visit_date) >>
    ELSE IF /\ tp.coronary_intervention # None
            /\ \/ IsOne(try_parse_code(tp.coronary_intervention))
               \/ contains_keywords(tp.coronary_intervention, "coronary_intervention")
    THEN << <<"coronary_intervention">>,
            ProcedureDate(tp.intervention_date, tp.visit_date) >>
    ELSE <<None, None>>


(***************************************************************************)
(* First-Occurrence Resolver and Endpoint Evaluator:                       *)
(* LongitudinalEventProcessor.process_followup and its helpers.            *)
(***************************************************************************)
EventTrackingKeys ==
    {"death", "cardiac_death", "mi", "nonfatal_mi", "angina", "heart_failure",
     "revascularization", "target_vessel_revascularization", "hospitalization",
     "cardiac_hospitalization"}

\* event_tracking as process_followup initialises it
InitEventTracking ==
    [k \in EventTrackingKeys |-> [date |-> None, time_point |-> None, days |-> None]]

\* coronary_tracking as process_followup initialises it
InitCoronaryTracking ==
    [k \in {"coronary_ct", "coronary_angiography", "coronary_intervention",
            "coronary_bypass", "revascularization_treatment"} |->
        [date |-> None, time_point |-> None, has |-> FALSE, type |-> None, detail |-> None]]

\* sorted(time_points, key=lambda tp: tp.months): a stable sort
RECURSIVE InsertByMonths(_, _)
InsertByMonths(sorted, tp) ==
    IF sorted = <<>> THEN <<tp>>
    ELSE IF Head(sorted).months <= tp.months
    THEN <<Head(sorted)>> \o InsertByMonths(Tail(sorted), tp)
    ELSE <<tp>> \o sorted

RECURSIVE SortedByMonths(_)
SortedByMonths(tps) ==
    IF tps = <<>> THEN <<>>
    ELSE InsertByMonths(SortedByMonths(SubSeq(tps, 1, Len(tps) - 1)), tps[Len(tps)])

\* a or b for Optional[date] and Optional[str] operands
PyOr(a, b) == IF a # None THEN a ELSE b

\* a or b for Optional[int] operands: 0 is falsy as well
PyOrInt(a, b) == IF a # None /\ a # <<0>> THEN a ELSE b

\* An inner loop that replaces the overall first event on an equal date too
RecordEvent_OrEqual(acc, tp, ev, enrollment_date) ==
    LET event_type == ev[1]
        event_date == ev[2]
        days_to_event == IF enrollment_date # None
                         THEN <<DaysBetween(event_date, enrollment_date)>> ELSE None
        tracked == IF event_type \in EventTrackingKeys
                      /\ acc.event_tracking[event_type].date = None
                   THEN [acc.event_tracking EXCEPT ![event_type] =
                            [date |-> event_date, time_point |-> tp.time_point,
                             days |-> days_to_event]]
                   ELSE acc.event_tracking
    IN IF event_date = None THEN acc
       ELSE IF acc.first_event_date = None \/ ~DateLess(acc.first_event_date, event_date)
       THEN [acc EXCEPT !.event_tracking = tracked,
                        !.first_event_type = <<event_type>>,
                        !.first_event_time_point = tp.time_point,
                        !.first_event_date = event_date,
                        !.first_event_months = <<tp.months>>]
       ELSE [acc EXCEPT !.event_tracking = tracked]

\* One pass of the inner loop of process_followup (lines 164-187): acc holds
\* event_tracking and the overall first event.
RecordEvent(acc, tp, ev, enrollment_date) ==
    LET event_type == ev[1]
        event_date == ev[2]
        days_to_event == IF enrollment_date # None
                         THEN <<DaysBetween(event_date, enrollment_date)>> ELSE None
        tracked == IF event_type \in EventTrackingKeys
                      /\ acc.event_tracking[event_type].date = None
                   THEN [acc.event_tracking EXCEPT ![event_type] =
                            [date |-> event_date, time_point |-> tp.time_point,
                             days |-> days_to_event]]
                   ELSE acc.event_tracking
    IN IF event_date = None THEN acc
       ELSE IF acc.first_event_date = None \/ DateLess(event_date, acc.first_event_date)
       THEN [acc EXCEPT !.event_tracking = tracked,
                        !.first_event_type = <<event_type>>,
                        !.first_event_time_point = tp.time_point,
                        !.first_event_date = event_date,
                        !.first_event_months = <<tp.months>>]
       ELSE [acc EXCEPT !.event_tracking = tracked]

RECURSIVE RecordEvents(_, _, _, _)
RecordEvents(acc, tp, evs, enrollment_date) ==
    IF evs = <<>> THEN acc
    ELSE RecordEvents(RecordEvent(acc, tp, Head(evs), enrollment_date), tp, Tail(evs),
                      enrollment_date)

\* "CT" in k or "ct" in k.lower(), for the overflow keys of the model: the
\* coronary-intervention column of the code book carries CT in its name.
KeyNamesCT == {"coronary_ct", "coronary_angiography_ct_or_intervention_1"}

\* A tracker whose slots are overwritten by every later time point
track_coronary_procedures_LastWins(tp, tracking) ==
    LET visit_date == tp.visit_date
        interv == tp.coronary_intervention # None
                  /\ IsOne(try_parse_code(tp.coronary_intervention))
        interv_date == IF tp.intervention_date # None THEN tp.intervention_date
                       ELSE visit_date
        bypass == tp.coronary_bypass # None /\ IsOne(try_parse_code(tp.coronary_bypass))
        revasc == tp.revascularization_treatment # None
                  /\ IsOne(try_parse_code(tp.revascularization_treatment))
        ct == \E k \in (DOMAIN tp.raw_data) \cap KeyNamesCT :
                  IsOne(try_parse_code(tp.raw_data[k]))
        Set(slot, on, d, ty, de) ==
            IF on
            THEN [date |-> d, time_point |-> tp.time_point, has |-> TRUE,
                  type |-> ty, detail |-> de]
            ELSE slot
    IN IF visit_date = None THEN tracking
       ELSE [tracking EXCEPT
               !["coronary_intervention"] = Set(@, interv, interv_date, None, None),
               !["coronary_angiography"] = Set(@, interv, interv_date, None, None),
               !["coronary_bypass"] =
                   Set(@, bypass, IF tp.bypass_date # None THEN tp.bypass_date
                                  ELSE visit_date, None, None),
               !["revascularization_treatment"] =
                   Set(@, revasc, IF tp.revascularization_date # None
                                  THEN tp.revascularization_date ELSE visit_date,
                       tp.revascularization_type, tp.revascularization_detail),
               !["coronary_ct"] = Set(@, ct, visit_date, None, None)]

\* LongitudinalEventProcessor._track_coronary_procedures
track_coronary_procedures(tp, tracking) ==
    LET visit_date == tp.visit_date
        interv == tp.coronary_intervention # None
                  /\ IsOne(try_parse_code(tp.coronary_intervention))
        interv_date == IF tp.intervention_date # None THEN tp.intervention_date
                       ELSE visit_date
        bypass == tp.coronary_bypass # None /\ IsOne(try_parse_code(tp.coronary_bypass))
        revasc == tp.revascularization_treatment # None
                  /\ IsOne(try_parse_code(tp.revascularization_treatment))
        ct == \E k \in (DOMAIN tp.raw_data) \cap KeyNamesCT :
                  IsOne(try_parse_code(tp.raw_data[k]))
        Set(slot, on, d, ty, de) ==
            IF on /\ ~slot.has
            THEN [date |-> d, time_point |-> tp.time_point, has |-> TRUE,
                  type |-> ty, detail |-> de]
            ELSE slot
    IN IF visit_date = None THEN tracking
       ELSE [tracking EXCEPT
               !["coronary_intervention"] = Set(@, interv, interv_date, None, None),
               !["coronary_angiography"] = Set(@, interv, interv_date, None, None),
               !["coronary_bypass"] =
                   Set(@, bypass, IF tp.bypass_date # None THEN tp.bypass_date
                                  ELSE visit_date, None, None),
               !["revascularization_treatment"] =
                   Set(@, revasc, IF tp.revascularization_date # None
                                  THEN tp.revascularization_date ELSE visit_date,
                       tp.revascularization_type, tp.revascularization_detail),
               !["coronary_ct"] = Set(@, ct, visit_date, None, None)]

\* The outer loop of process_followup (lines 160-192) over the sorted time points.
RECURSIVE ScanTimePoints(_, _, _)
ScanTimePoints(acc, tps, enrollment_date) ==
    IF tps = <<>> THEN acc
    ELSE LET tp == Head(tps)
             seen == RecordEvents(acc, tp, identify_all_events(tp), enrollment_date)
         IN ScanTimePoints(
                [seen EXCEPT !.coronary_tracking =
                                 track_coronary_procedures(tp, seen.coronary_tracking)],
                Tail(tps), enrollment_date)

\* The dates of event_tracking.values() that are set, as any_event collects them
TrackedDates(event_tracking, keys) ==
    {event_tracking[k].date : k \in {x \in keys : event_tracking[x].date # None}}

EarliestOf(dates) == CHOOSE d \in dates : \A e \in dates : ~DateLess(e, d)

\* The event_tracking slots each endpoint selector reads (lines 310-371)
EndpointKeys(ep) ==
    CASE ep = "death" -> {"death", "cardiac_death"}
      [] ep = "mace" -> {"death", "cardiac_death", "nonfatal_mi",
                         "target_vessel_revascularization"}
      [] ep = "mi" -> {"nonfatal_mi"}
      [] ep = "angina" -> {"angina"}
      [] ep = "heart_failure" -> {"heart_failure"}
      [] ep = "revascularization" -> {"target_vessel_revascularization"}
      [] ep = "hospitalization" -> {"cardiac_hospitalization"}
      [] ep = "any_event" -> EventTrackingKeys
      [] OTHER -> {}

\* endpoint_date as lines 310-371 leave it: None when the endpoint did not occur
EndpointDate(ep, event_tracking) ==
    LET dates == TrackedDates(event_tracking, EndpointKeys(ep)) IN
    IF dates = {} THEN None
    ELSE IF ep = "death"
    THEN PyOr(event_tracking["death"].date, event_tracking["cardiac_death"].date)
    ELSE EarliestOf(dates)

\* A survival time that ignores the latest follow-up when censoring
SurvivalDays_NoCensoring(endpoint_occurred, endpoint_date, enrollment_date, latest_date) ==
    IF endpoint_occurred /\ endpoint_date # None
    THEN DaysBetween(endpoint_date, enrollment_date)
    ELSE 0

\* A survival time that always runs to the latest follow-up
SurvivalDays_AlwaysLatest(endpoint_occurred, endpoint_date, enrollment_date, latest_date) ==
    IF latest_date # None /\ enrollment_date # None
    THEN DaysBetween(latest_date, enrollment_date)
    ELSE 0

\* survival_days (lines 373-381)
SurvivalDays(endpoint_occurred, endpoint_date, enrollment_date, latest_date) ==
    IF endpoint_occurred /\ endpoint_date # None
    THEN DaysBetween(endpoint_date, enrollment_date)
    ELSE IF latest_date # None /\ enrollment_date # None
    THEN DaysBetween(latest_date, enrollment_date)
    ELSE 0

\* LongitudinalEventProcessor._calculate_endpoint_outcome with self.endpoint = ep
calculate_endpoint_outcome(ep, event_tracking, enrollment_date, latest_date) ==
    LET endpoint_date == EndpointDate(ep, event_tracking)
        endpoint_occurred == endpoint_date # None
    IN [endpoint_occurred |-> endpoint_occurred,
        survival_days |-> SurvivalDays(endpoint_occurred, endpoint_date, enrollment_date,
                                       latest_date),
        endpoint_description |-> ep]

\* A classification that looks for the lost-to-follow-up flag at the last time
\* point only
determine_followup_status_LastOnly(rec) ==
    IF rec.time_points = <<>> THEN "no_data"
    ELSE IF rec.time_points[Len(rec.time_points)].is_lost_to_followup
    THEN "lost_to_followup"
    ELSE IF rec.latest_followup_months # None
    THEN (IF rec.latest_followup_months[1] >= 60 THEN "complete"
          ELSE IF rec.latest_followup_months[1] >= 12 THEN "adequate"
          ELSE "incomplete")
    ELSE "unknown"

\* LongitudinalEventProcessor._determine_followup_status
determine_followup_status(rec) ==
    IF rec.time_points = <<>> THEN "no_data"
    ELSE IF \E i \in 1..Len(rec.time_points) : rec.time_points[i].is_lost_to_followup
    THEN "lost_to_followup"
    ELSE IF rec.latest_followup_months # None
    THEN (IF rec.latest_followup_months[1] >= 60 THEN "complete"
          ELSE IF rec.latest_followup_months[1] >= 12 THEN "adequate"
          ELSE "incomplete")
    ELSE "unknown"

\* The LongitudinalFollowupRecord process_followup builds (lines 200-288) once
\* the loop over the time points has left acc
FollowupRecordOf(ep, rec, acc, outcome) ==
    LET et == acc.event_tracking
        ct == acc.coronary_tracking
    IN [patient_id |-> rec.patient_id,
        enrollment_date |-> rec.enrollment_date,
        latest_followup_date |-> rec.latest_followup_date,
        latest_followup_months |-> rec.latest_followup_months,
        days_to_latest_followup |-> rec.days_to_latest_followup,
        first_event_type |-> acc.first_event_type,
        first_event_date |-> acc.first_event_date,
        first_event_time_point |-> acc.first_event_time_point,
        first_event_months |-> acc.first_event_months,
        days_to_first_event |->
            IF acc.first_event_date # None /\ rec.enrollment_date # None
            THEN <<DaysBetween(acc.first_event_date, rec.enrollment_date)>> ELSE None,
        first_death_date |-> PyOr(et["death"].date, et["cardiac_death"].date),
        first_death_time_point |->
            PyOr(et["death"].time_point, et["cardiac_death"].time_point),
        days_to_first_death |-> PyOrInt(et["death"].days, et["cardiac_death"].days),
        first_mi_date |-> PyOr(et["mi"].date, et["nonfatal_mi"].date),
        first_mi_time_point |-> PyOr(et["mi"].time_point, et["nonfatal_mi"].time_point),
        days_to_first_mi |-> PyOrInt(et["mi"].days, et["nonfatal_mi"].days),
        first_angina_date |-> et["angina"].date,
        first_angina_time_point |-> et["angina"].time_point,
        days_to_first_angina |-> et["angina"].days,
        first_heart_failure_date |-> et["heart_failure"].date,
        first_heart_failure_time_point |-> et["heart_failure"].time_point,
        days_to_first_heart_failure |-> et["heart_failure"].days,
        first_revascularization_date |->
            PyOr(et["revascularization"].date, et["target_vessel_revascularization"].date),
        first_revascularization_time_point |->
            PyOr(et["revascularization"].time_point,
                 et["target_vessel_revascularization"].time_point),
        days_to_first_revascularization |->
            PyOrInt(et["revascularization"].days, et["target_vessel_revascularization"].days),
        first_hospitalization_date |->
            PyOr(et["hospitalization"].date, et["cardiac_hospitalization"].date),
        first_hospitalization_time_point |->
            PyOr(et["hospitalization"].time_point, et["cardiac_hospitalization"].time_point),
        days_to_first_hospitalization |->
            PyOrInt(et["hospitalization"].days, et["cardiac_hospitalization"].days),
        has_coronary_ct |-> ct["coronary_ct"].has,
        first_coronary_ct_date |-> ct["coronary_ct"].date,
        first_coronary_ct_time_point |-> ct["coronary_ct"].time_point,
        has_coronary_angiography |-> ct["coronary_angiography"].has,
        first_coronary_angiography_date |-> ct["coronary_angiography"].date,
        first_coronary_angiography_time_point |-> ct["coronary_angiography"].time_point,
        has_coronary_intervention |-> ct["coronary_intervention"].has,
        first_coronary_intervention_date |-> ct["coronary_intervention"].date,
        first_coronary_intervention_time_point |-> ct["coronary_intervention"].time_point,
        has_coronary_bypass |-> ct["coronary_bypass"].has,
        first_coronary_bypass_date |-> ct["coronary_bypass"].date,
        first_coronary_bypass_time_point |-> ct["coronary_bypass"].time_point,
        has_revascularization_treatment |-> ct["revascularization_treatment"].has,
        first_revascularization_treatment_date |-> ct["revascularization_treatment"].date,
        first_revascularization_treatment_time_point |->
            ct["revascularization_treatment"].time_point,
        first_revascularization_treatment_type |-> ct["revascularization_treatment"].type,
        first_revascularization_treatment_detail |->
            ct["revascularization_treatment"].detail,
        has_death |-> FALSE,
        has_cardiovascular_event |-> FALSE,
        has_lost_to_followup |-> FALSE,
        total_followup_status |-> determine_followup_status(rec),
        event_occurred |-> outcome.endpoint_occurred,
        survival_time_days |-> outcome.survival_days,
        endpoint_event |-> outcome.endpoint_description]

\* The part of process_followup after the loop: the endpoint outcome and the
\* record
FinishFollowup(ep, rec, acc) ==
    FollowupRecordOf(ep, rec, acc,
                     calculate_endpoint_outcome(ep, acc.event_tracking, rec.enrollment_date,
                                                rec.latest_followup_date))

\* LongitudinalEventProcessor.process_followup with self.endpoint = ep
process_followup(ep, rec) ==
    FinishFollowup(ep, rec,
                   ScanTimePoints([event_tracking |-> InitEventTracking,
                                   coronary_tracking |-> InitCoronaryTracking,
                                   first_event_type |-> None, first_event_time_point |-> None,
                                   first_event_date |-> None, first_event_months |-> None],
                                  SortedByMonths(rec.time_points), rec.enrollment_date))


(***************************************************************************)
(* LongitudinalDataImporter._calculate_latest_followup                     *)
(***************************************************************************)
\* A resolution that takes the time point with the latest calendar date
calculate_latest_followup_ByDate(rec) ==
    LET dated == {i \in 1..Len(rec.time_points) : rec.time_points[i].visit_date # None}
    IN IF dated = {} THEN rec
       ELSE LET last == CHOOSE i \in dated : \A j \in dated :
                            ~DateLess(rec.time_points[i].visit_date,
                                      rec.time_points[j].visit_date)
                tp == rec.time_points[last]
            IN [rec EXCEPT
                  !.latest_followup_date = tp.visit_date,
                  !.latest_followup_months = <<tp.months>>,
                  !.days_to_latest_followup =
                      <<DaysBetween(tp.visit_date, rec.enrollment_date)>>]

calculate_latest_followup(rec) ==
    LET sorted_time_points == SortedByMonths(rec.time_points)
        dated == {i \in 1..Len(sorted_time_points) :
                     sorted_time_points[i].visit_date # None}
    IN IF rec.time_points = <<>> \/ dated = {} THEN rec
       ELSE LET last == CHOOSE i \in dated : \A j \in dated : j <= i
                tp == sorted_time_points[last]
            IN [rec EXCEPT
                  !.latest_followup_date = tp.visit_date,
                  !.latest_followup_months = <<tp.months>>,
                  !.days_to_latest_followup =
                      IF rec.enrollment_date # None
                      THEN <<DaysBetween(tp.visit_date, rec.enrollment_date)>>
                      ELSE @]

(***************************************************************************)
(* Values of the model: dates, cells, time points.                         *)
(***************************************************************************)
EnrollmentDate == <<2020, 1, 1>>
VisitMonth6    == <<2020, 7, 5>>
VisitMonth12   == <<2021, 1, 2>>
DeathDate      == <<2020, 9, 1>>
BeforeEnrollment == <<2019, 12, 25>>

Label6  == <<"di", "liu", "ge", "yue", "sui", "fang">>
Label12 == <<"di", "1", "2", "ge", "yue", "sui", "fang">>

EmptyRawData == [k \in {} |-> None]

\* TimePointData(time_point=label, months=months) with every other field at
\* its default
TimePointData(label, months) ==
    [time_point |-> label, months |-> months, visit_date |-> None,
     is_lost_to_followup |-> FALSE, death_date |-> None,
     cardiovascular_event |-> None, event_types |-> <<>>,
     coronary_intervention |-> None, intervention_date |-> None,
     coronary_bypass |-> None, bypass_date |-> None,
     revascularization_treatment |-> None, revascularization_type |-> None,
     revascularization_date |-> None, revascularization_detail |-> None,
     raw_data |-> EmptyRawData]

\* LongitudinalPatientRecord(patient_id, enrollment_date, time_points)
LongitudinalPatientRecord(patient_id, enrollment_date, time_points) ==
    [patient_id |-> patient_id, enrollment_date |-> enrollment_date,
     time_points |-> time_points, latest_followup_date |-> None,
     latest_followup_months |-> None, days_to_latest_followup |-> None]

\* The decoded event lists a time point may carry (values of the importer's
\* EVENT_TYPE_CODES)
DecodedLists ==
    {<<"mi">>, <<"angina">>, <<"revascularization">>, <<"heart_failure">>,
     <<"angina", "hospitalization">>}

\* The cells of the specific-event overflow field on the back-compat path
AdverseCells == {<<"1", ".", "0">>, <<"2", ".", "0">>, <<"3">>, <<"6", ".", "0">>}

\* The observations one visit can contribute to a Timeline
TimePointsAt(label, months) ==
    LET base == TimePointData(label, months) IN
    \* a visit without events, or a missed visit
    {[base EXCEPT !.visit_date = d] : d \in {None, VisitMonth6, VisitMonth12}}
    \cup
    \* a death, also one dated before enrollment
    {[base EXCEPT !.death_date = d] : d \in {DeathDate, BeforeEnrollment}}
    \cup
    \* decoded multi-valued event codes
    {[base EXCEPT !.visit_date = VisitMonth6, !.event_types = l] : l \in DecodedLists}
    \cup
    \* the back-compat flag with a specific-event code
    {[base EXCEPT !.visit_date = VisitMonth6, !.cardiovascular_event = <<"1">>,
                  !.raw_data = [k \in {"adverse_event_what_1"} |-> c]] : c \in AdverseCells}
    \cup
    \* the back-compat flag without a specific-event code, and procedures
    {[base EXCEPT !.visit_date = VisitMonth6, !.cardiovascular_event = <<"1", ".", "0">>],
     [base EXCEPT !.visit_date = VisitMonth12, !.coronary_bypass = <<"1">>],
     [base EXCEPT !.visit_date = VisitMonth12, !.coronary_intervention = <<"1">>,
                  !.intervention_date = BeforeEnrollment]}

TimePoints == TimePointsAt(Label6, 6) \cup TimePointsAt(Label12, 12)

Endpoints ==
    {"death", "mace", "mi", "angina", "heart_failure", "revascularization",
     "hospitalization", "any_event"}

NoEvent == <<None, None>>

(***************************************************************************)
(* Specification Spec: one subject's Timeline is built, its latest         *)
(* follow-up resolved, and a processor with some endpoint processes it.    *)
(***************************************************************************)
ExtractIdle == time_point = None /\ events_list = <<>> /\ single_event = NoEvent
ImportIdle  == sheet_data = <<>> /\ sheet_name = <<>> /\ time_point_info = None
BatchIdle   == patient_records = <<>> /\ followup_records = <<>>
CodesIdle   == event_type_value = None /\ event_types = <<>>
RunsIdle    == clock = 0 /\ runs = <<>>
FilesIdle   == excel_file = None /\ file_path = None
LegacyIdle  == event_infos = <<>> /\ first_event_result = None

Init ==
    /\ pc = "new"
    /\ endpoint = "death"
    /\ patient_record = LongitudinalPatientRecord("P1", EnrollmentDate, <<>>)
    /\ followup_record = None
    /\ ExtractIdle
    /\ BatchIdle
    /\ CodesIdle
    /\ RunsIdle
    /\ FilesIdle
    /\ LegacyIdle
    /\ ImportIdle

\* time_points.append(time_point_data)
AppendTimePoint ==
    /\ pc = "new"
    /\ Len(patient_record.time_points) < MaxTimePoints
    /\ \E tp \in TimePoints :
           patient_record' = [patient_record EXCEPT !.time_points = Append(@, tp)]
    /\ UNCHANGED <<pc, endpoint, followup_record, extractVars, importVars,
                 batchVars, codeVars, runVars, fileVars, legacyVars>>

\* self._calculate_latest_followup(record)
CalculateLatestFollowup ==
    /\ pc = "new"
    /\ patient_record' = calculate_latest_followup(patient_record)
    /\ pc' = "assembled"
    /\ UNCHANGED <<endpoint, followup_record, extractVars, importVars,
                 batchVars, codeVars, runVars, fileVars, legacyVars>>

\* LongitudinalEventProcessor(endpoint=e).process_followup(patient_record)
ProcessFollowup ==
    /\ pc = "assembled"
    /\ \E e \in Endpoints :
           /\ endpoint' = e
           /\ followup_record' = process_followup(e, patient_record)
    /\ pc' = "processed"
    /\ UNCHANGED <<patient_record, extractVars, importVars, batchVars, codeVars, runVars,
                 fileVars, legacyVars>>

Next == AppendTimePoint \/ CalculateLatestFollowup \/ ProcessFollowup

Spec == Init /\ [][Next]_vars


(***************************************************************************)
(* Specification SpecExtract: one TimePointData, drawn from the product of *)
(* its fields' values, is handed to _identify_all_events and then to       *)
(* _identify_event.                                                        *)
(***************************************************************************)
CvCells == {None, <<"1">>, <<"1", ".", "0">>, <<"2">>, <<"a", "c", "u", "t", "e">>}
BypassCells == {None, <<"1">>, <<"2">>, <<"C", "A", "B", "G">>}
InterventionCells == {None, <<"1">>, <<"s", "t", "e", "n", "t">>}

RawDatas ==
    {EmptyRawData,
     [k \in {"adverse_event_what_1"} |-> <<"5">>],
     [k \in {"adverse_event_what_1"} |-> <<"9">>],
     [k \in {"adverse_event_what_1", "adverse_event_type"} |->
         IF k = "adverse_event_what_1" THEN None ELSE <<"2", ".", "0">>]}

ExtractTimePoints ==
    {[TimePointData(Label6, 6) EXCEPT
        !.visit_date = v, !.death_date = d, !.event_types = l,
        !.cardiovascular_event = cv, !.raw_data = rd,
        !.coronary_bypass = b, !.bypass_date = bd,
        !.coronary_intervention = c, !.intervention_date = cd] :
        v \in {None, VisitMonth6}, d \in {None, DeathDate, BeforeEnrollment},
        l \in {<<>>, <<"angina">>, <<"angina", "hospitalization">>},
        cv \in CvCells, rd \in RawDatas,
        b \in BypassCells, bd \in {None, VisitMonth12},
        c \in InterventionCells, cd \in {None, BeforeEnrollment}}

ProcIdle ==
    /\ endpoint = "death"
    /\ patient_record = LongitudinalPatientRecord("P1", EnrollmentDate, <<>>)
    /\ followup_record = None

InitExtract ==
    /\ pc = "tp"
    /\ time_point \in ExtractTimePoints
    /\ events_list = <<>>
    /\ single_event = NoEvent
    /\ ProcIdle
    /\ ImportIdle
    /\ BatchIdle
    /\ CodesIdle
    /\ RunsIdle
    /\ FilesIdle
    /\ LegacyIdle

\* self._identify_all_events(time_point)
IdentifyAllEvents ==
    /\ pc = "tp"
    /\ events_list' = identify_all_events(time_point)
    /\ pc' = "tp_all"
    /\ UNCHANGED <<time_point, single_event, procVars, importVars,
                 batchVars, codeVars, runVars, fileVars, legacyVars>>

\* self._identify_event(time_point)
IdentifyEvent ==
    /\ pc = "tp_all"
    /\ single_event' = identify_event(time_point)
    /\ pc' = "tp_both"
    /\ UNCHANGED <<time_point, events_list, procVars, importVars,
                 batchVars, codeVars, runVars, fileVars, legacyVars>>

NextExtract == IdentifyAllEvents \/ IdentifyEvent

SpecExtract == InitExtract /\ [][NextExtract]_vars

(***************************************************************************)
(* Vocabulary of the properties: what the Event Extractor emits over a     *)
(* Timeline, by canonical category.                                        *)
(***************************************************************************)
\* The events <<event_type, event_date>> emitted at any time point
EmittedEvents(rec) ==
    UNION {{identify_all_events(rec.time_points[i])[j] :
               j \in 1..Len(identify_all_events(rec.time_points[i]))} :
           i \in 1..Len(rec.time_points)}

\* The canonical category of an emitted event type, whichever path named it
CanonicalCategory(event_type) ==
    CASE event_type \in {"death", "cardiac_death"} -> "death"
      [] event_type \in {"mi", "nonfatal_mi"} -> "myocardial_infarction"
      [] event_type \in {"revascularization", "target_vessel_revascularization"} ->
             "revascularization"
      [] event_type \in {"hospitalization", "cardiac_hospitalization"} -> "hospitalization"
      [] OTHER -> event_type

CanonicalCategories ==
    {"death", "myocardial_infarction", "revascularization", "heart_failure", "angina",
     "hospitalization", "cardiovascular_event", "coronary_intervention", "coronary_bypass"}

\* The constituent categories of each endpoint selector
Constituents(ep) ==
    CASE ep = "death" -> {"death"}
      [] ep = "mace" -> {"death", "myocardial_infarction", "revascularization"}
      [] ep = "mi" -> {"myocardial_infarction"}
      [] ep = "angina" -> {"angina"}
      [] ep = "heart_failure" -> {"heart_failure"}
      [] ep = "revascularization" -> {"revascularization"}
      [] ep = "hospitalization" -> {"hospitalization"}
      [] ep = "any_event" -> CanonicalCategories

\* The dates of the emitted events of the given categories
OccurredDates(rec, cats) ==
    {ev[2] : ev \in {e \in EmittedEvents(rec) : CanonicalCategory(e[1]) \in cats}}

\* first_<category>_date of the OutcomeRecord for a single-category selector
FirstDateField(fr, ep) ==
    CASE ep = "mi" -> fr.first_mi_date
      [] ep = "angina" -> fr.first_angina_date
      [] ep = "heart_failure" -> fr.first_heart_failure_date
      [] ep = "revascularization" -> fr.first_revascularization_date
      [] ep = "hospitalization" -> fr.first_hospitalization_date

Processed == pc = "processed"

(***************************************************************************)
(* C1. With selector mace, event_occurred holds iff some time point        *)
(* yielded a death, myocardial infarction or revascularization event by    *)
(* any extraction path; then the survival time runs to the minimum of the  *)
(* first-occurrence dates of those categories and endpoint_event is mace.  *)
(***************************************************************************)
C1_MaceIffDeathMiRevasc ==
    (Processed /\ endpoint = "mace") =>
        LET fr == followup_record
            firsts == {fr.first_death_date, fr.first_mi_date,
                       fr.first_revascularization_date} \ {None}
        IN /\ fr.event_occurred <=> OccurredDates(patient_record, Constituents("mace")) # {}
           /\ fr.event_occurred =>
                  /\ fr.endpoint_event = "mace"
                  /\ fr.survival_time_days =
                         DaysBetween(EarliestOf(firsts), fr.enrollment_date)

(***************************************************************************)
(* C2. With a single-category selector (mi, angina, heart_failure,         *)
(* revascularization, hospitalization), event_occurred holds iff an event  *)
(* of that category was extracted at some time point, iff the record's     *)
(* first_<category>_date is set; then the survival time runs to that date. *)
(***************************************************************************)
SingleCategoryEndpoints ==
    {"mi", "angina", "heart_failure", "revascularization", "hospitalization"}

C2_SingleCategoryIffExtracted ==
    (Processed /\ endpoint \in SingleCategoryEndpoints) =>
        LET fr == followup_record
            first == FirstDateField(fr, endpoint)
        IN /\ fr.event_occurred <=> OccurredDates(patient_record, Constituents(endpoint)) # {}
           /\ fr.event_occurred <=> first # None
           /\ fr.event_occurred =>
                  fr.survival_time_days = DaysBetween(first, fr.enrollment_date)

(***************************************************************************)
(* C3. A time point with a death date yields exactly one event from        *)
(* _identify_all_events, (death, death_date), whatever its other fields;   *)
(* _identify_event returns (death, death_date) as well.                    *)
(***************************************************************************)
C3_DeathDateYieldsOnlyDeath ==
    /\ (pc \in {"tp_all", "tp_both"} /\ time_point.death_date # None) =>
           events_list = << <<"death", time_point.death_date>> >>
    /\ (pc = "tp_both" /\ time_point.death_date # None) =>
           single_event = << <<"death">>, time_point.death_date >>

C3_Witness ==
    /\ pc = "tp_both"
    /\ time_point.death_date # None
    /\ time_point.visit_date # None
    /\ time_point.event_types # <<>>
    /\ IsOne(try_parse_code(time_point.cardiovascular_event))
    /\ IsOne(try_parse_code(time_point.coronary_bypass))
    /\ IsOne(try_parse_code(time_point.coronary_intervention))

(***************************************************************************)
(* C4. With selector any_event, event_occurred holds iff the Event         *)
(* Extractor emitted an event of any canonical category (the generic       *)
(* cardiovascular_event and the two procedures included), iff the overall  *)
(* first event is set; then the survival time runs to the earliest date    *)
(* and endpoint_event is any_event.                                        *)
(***************************************************************************)
C4_AnyEventIffAnyEmitted ==
    (Processed /\ endpoint = "any_event") =>
        LET fr == followup_record IN
        /\ fr.event_occurred <=> EmittedEvents(patient_record) # {}
        /\ fr.event_occurred <=> fr.first_event_date # None
        /\ fr.event_occurred =>
               /\ fr.endpoint_event = "any_event"
               /\ fr.survival_time_days =
                      DaysBetween(fr.first_event_date, fr.enrollment_date)

(***************************************************************************)
(* C5. If none of the selector's constituent categories occurred, then     *)
(* event_occurred is false and survival_time_days is the latest follow-up  *)
(* date minus the enrollment date, or 0 when no latest follow-up is known. *)
(***************************************************************************)
C5_CensoredAtLatestFollowup ==
    (Processed /\ OccurredDates(patient_record, Constituents(endpoint)) = {}) =>
        /\ ~followup_record.event_occurred
        /\ followup_record.survival_time_days =
               IF patient_record.latest_followup_date # None
               THEN DaysBetween(patient_record.latest_followup_date,
                                patient_record.enrollment_date)
               ELSE 0

\* censored at a known latest follow-up while an event of another category occurred
C5_Witness ==
    /\ Processed
    /\ OccurredDates(patient_record, Constituents(endpoint)) = {}
    /\ EmittedEvents(patient_record) # {}
    /\ patient_record.latest_followup_date = VisitMonth12
    /\ followup_record.survival_time_days = 367

(***************************************************************************)
(* C6. survival_time_days is at least 0 in every OutcomeRecord (and is 0   *)
(* when neither an endpoint date nor a latest follow-up date is known).    *)
(***************************************************************************)
C6_SurvivalTimeNonNegative ==
    Processed =>
        /\ followup_record.survival_time_days >= 0
        /\ (~followup_record.event_occurred /\ patient_record.latest_followup_date = None)
               => followup_record.survival_time_days = 0

(***************************************************************************)
(* C7. Whenever the selected endpoint occurred, endpoint_event is the      *)
(* selector and survival_time_days is the endpoint date (the date of an    *)
(* emitted event of the selector's categories; for angina and heart        *)
(* failure the first-occurrence date of the record) minus the enrollment   *)
(* date. Scenario A: enrollment 2020-01-01, angina decoded at the month-6  *)
(* visit of 2020-07-05, an uneventful month-12 visit on 2021-01-02, and    *)
(* selector angina give event_occurred, 186 days, endpoint_event angina    *)
(* and first_angina_date 2020-07-05.                                       *)
(***************************************************************************)
ScenarioA ==
    << [TimePointData(Label6, 6) EXCEPT !.visit_date = <<2020, 7, 5>>,
                                        !.event_types = <<"angina">>],
       [TimePointData(Label12, 12) EXCEPT !.visit_date = <<2021, 1, 2>>] >>

ScenarioB == << [TimePointData(Label12, 12) EXCEPT !.death_date = <<2020, 9, 1>>] >>

InScenarioB ==
    /\ Processed
    /\ endpoint = "mace"
    /\ patient_record.enrollment_date = <<2020, 1, 1>>
    /\ patient_record.time_points = ScenarioB

C8_ScenarioB_245 ==
    InScenarioB =>
        /\ followup_record.event_occurred
        /\ followup_record.survival_time_days = 245
        /\ followup_record.first_death_date = <<2020, 9, 1>>
        /\ followup_record.first_mi_date = None

C8_ScenarioB_244 ==
    InScenarioB =>
        /\ followup_record.event_occurred
        /\ followup_record.survival_time_days = 244
        /\ followup_record.first_death_date = <<2020, 9, 1>>
        /\ followup_record.first_mi_date = None

C8_Witness == InScenarioB /\ followup_record.event_occurred


(***************************************************************************)
(* LongitudinalDataImporter: sheet names.                                  *)
(***************************************************************************)
\* TIME_POINT_PATTERNS. Every alternative of every pattern is a core followed
\* by an optional "ge" and a "yue"; di tells whether the alternative starts
\* with an optional "di".
OrdinalAlt(word) == [di |-> TRUE, core |-> word]
BareAlt(word)    == [di |-> FALSE, core |-> word]

TIME_POINT_PATTERNS ==
    << [alts |-> <<OrdinalAlt(<<"yi">>), BareAlt(<<"1">>)>>, months |-> 1],
       [alts |-> <<OrdinalAlt(<<"san">>), BareAlt(<<"3">>)>>, months |-> 3],
       [alts |-> <<OrdinalAlt(<<"liu">>), BareAlt(<<"6">>)>>, months |-> 6],
       [alts |-> <<OrdinalAlt(<<"1", "2">>)>>, months |-> 12],
       [alts |-> <<OrdinalAlt(<<"1", "8">>)>>, months |-> 18],
       [alts |-> <<OrdinalAlt(<<"2", "4">>)>>, months |-> 24],
       [alts |-> <<OrdinalAlt(<<"3", "0">>)>>, months |-> 30],
       [alts |-> <<OrdinalAlt(<<"3", "6">>)>>, months |-> 36],
       [alts |-> <<OrdinalAlt(<<"4", "2">>)>>, months |-> 42],
       [alts |-> <<OrdinalAlt(<<"4", "8">>)>>, months |-> 48],
       [alts |-> <<OrdinalAlt(<<"5", "4">>)>>, months |-> 54],
       [alts |-> <<OrdinalAlt(<<"6", "0">>)>>, months |-> 60],
       [alts |-> <<OrdinalAlt(<<"6", "6">>)>>, months |-> 66],
       [alts |-> <<OrdinalAlt(<<"7", "2">>)>>, months |-> 72],
       [alts |-> <<OrdinalAlt(<<"8", "4">>)>>, months |-> 84],
       [alts |-> <<OrdinalAlt(<<"9", "0">>)>>, months |-> 90],
       [alts |-> <<OrdinalAlt(<<"9", "6">>)>>, months |-> 96],
       [alts |-> <<OrdinalAlt(<<"1", "0", "8">>)>>, months |-> 108],
       [alts |-> <<OrdinalAlt(<<"1", "2", "0">>)>>, months |-> 120] >>

At(s, p) == IF p >= 1 /\ p <= Len(s) THEN s[p] ELSE "$"

\* core, then "ge"?, then "yue", from position p of s
CoreMatchesAt(s, p, core) ==
    /\ p + Len(core) - 1 <= Len(s)
    /\ SubSeq(s, p, p + Len(core) - 1) = core
    /\ LET q == p + Len(core) IN
       \/ At(s, q) = "yue"
       \/ At(s, q) = "ge" /\ At(s, q + 1) = "yue"

\* An alternative that is tried at every position, as re.search does
AltMatchesAt(s, p, alt) ==
    \/ CoreMatchesAt(s, p, alt.core)
    \/ alt.di /\ At(s, p) = "di" /\ CoreMatchesAt(s, p + 1, alt.core)

\* re.search(pattern, sheet_name) is not None
PatternFound(pattern, s) ==
    \E p \in 1..Len(s) : \E a \in 1..Len(pattern.alts) : AltMatchesAt(s, p, pattern.alts[a])

\* re.search(r'(\d+)\s*[Mm<ge><yue>]', sheet_name): the digits of the leftmost
\* match, or None
RECURSIVE DigitRunEnd(_, _)
DigitRunEnd(s, p) == IF At(s, p + 1) \in Digits THEN DigitRunEnd(s, p + 1) ELSE p

RECURSIVE SkipSpaces(_, _)
SkipSpaces(s, p) == IF At(s, p) = " " THEN SkipSpaces(s, p + 1) ELSE p

FallbackDigits(s) ==
    LET starts == {p \in 1..Len(s) :
                      /\ s[p] \in Digits
                      /\ At(s, SkipSpaces(s, DigitRunEnd(s, p) + 1)) \in {"M", "m", "ge", "yue"}}
    IN IF starts = {} THEN None
       ELSE LET p == CHOOSE x \in starts : \A y \in starts : x <= y
            IN SubSeq(s, p, DigitRunEnd(s, p))

\* LongitudinalDataImporter._extract_time_point_info:
\* None, or <<time point name, months>>
extract_time_point_info(name) ==
    LET hits == {i \in 1..Len(TIME_POINT_PATTERNS) : PatternFound(TIME_POINT_PATTERNS[i], name)}
    IN IF hits # {}
       THEN <<name, TIME_POINT_PATTERNS[CHOOSE i \in hits : \A j \in hits : i <= j].months>>
       ELSE LET digits == FallbackDigits(name) IN
            IF digits # None THEN <<name, IntOf(digits)>> ELSE None

(***************************************************************************)
(* Specification SpecLabel: a sheet name is handed to                      *)
(* _extract_time_point_info.                                               *)
(***************************************************************************)
SupportedMonths == {TIME_POINT_PATTERNS[i].months : i \in 1..Len(TIME_POINT_PATTERNS)}

DigitChar(d) == CHOOSE c \in Digits : DigitVal(c) = d

\* str(n)
RECURSIVE NumeralOf(_)
NumeralOf(n) ==
    IF n < 10 THEN <<DigitChar(n)>> ELSE NumeralOf(n \div 10) \o <<DigitChar(n % 10)>>

\* The suffixes of the labels: "<sui><fang>" and the suffix of the workbook
\* the tests read, "<sui><fang>_CAGSFB1_627CAG<sui><fang><biao>1"
LabelSuffixes ==
    {<<"sui", "fang">>,
     <<"sui", "fang", "_", "C", "A", "G", "S", "F", "B", "1", "_", "6", "2", "7", "C", "A",
       "G", "sui", "fang", "biao", "1">>}

\* "<di>N<ge><yue>" followed by a suffix
NumericLabel(n, suffix) == <<"di">> \o NumeralOf(n) \o <<"ge", "yue">> \o suffix

\* "<di><word><ge><yue>" followed by a suffix, word one of yi, san, liu
SpelledLabel(word, suffix) == <<"di", word, "ge", "yue">> \o suffix

SpelledMonths(word) == CASE word = "yi" -> 1 [] word = "san" -> 3 [] word = "liu" -> 6

\* "NM_Sheet"
FallbackLabel(n) == NumeralOf(n) \o <<"M", "_", "S", "h", "e", "e", "t">>

BasicInfoLabel == <<"ji", "ben", "xinx", "xi">>
UnrecognizedLabel == <<"S", "h", "e", "e", "t", "1">>

SheetNames ==
    {NumericLabel(n, x) : n \in SupportedMonths, x \in LabelSuffixes}
    \cup {SpelledLabel(w, x) : w \in {"yi", "san", "liu"}, x \in LabelSuffixes}
    \cup {FallbackLabel(n) : n \in SupportedMonths}
    \cup {BasicInfoLabel, UnrecognizedLabel}

InitLabel ==
    /\ pc = "name"
    /\ sheet_name \in SheetNames
    /\ time_point_info = None
    /\ sheet_data = <<>>
    /\ ProcIdle
    /\ ExtractIdle
    /\ BatchIdle
    /\ CodesIdle
    /\ RunsIdle
    /\ FilesIdle
    /\ LegacyIdle

\* self._extract_time_point_info(sheet_name)
ExtractTimePointInfo ==
    /\ pc = "name"
    /\ time_point_info' = extract_time_point_info(sheet_name)
    /\ pc' = "name_done"
    /\ UNCHANGED <<sheet_data, sheet_name, procVars, extractVars,
                 batchVars, codeVars, runVars, fileVars, legacyVars>>

NextLabel == ExtractTimePointInfo

SpecLabel == InitLabel /\ [][NextLabel]_vars

(***************************************************************************)
(* C9. A label "<di>N<ge><yue><sui><fang>..." with N one of the supported  *)
(* numeric month offsets, or with one of the spelled-out ordinals yi, san, *)
(* liu, yields month offset N; "6M_Sheet" yields 6 by the fallback         *)
(* pattern.                                                                *)
(***************************************************************************)
C9_LabelYieldsItsMonth ==
    pc = "name_done" =>
        /\ \A n \in SupportedMonths : \A x \in LabelSuffixes :
               sheet_name = NumericLabel(n, x) =>
                   time_point_info # None /\ time_point_info[2] = n
        /\ \A w \in {"yi", "san", "liu"} : \A x \in LabelSuffixes :
               sheet_name = SpelledLabel(w, x) =>
                   time_point_info # None /\ time_point_info[2] = SpelledMonths(w)
        /\ sheet_name = FallbackLabel(6) =>
               time_point_info # None /\ time_point_info[2] = 6

(***************************************************************************)
(* LongitudinalDataImporter: cells, rows and sheets.                       *)
(* A cell is NaN, a datetime.date, a str or a number; a str and a number   *)
(* carry the text str(value) gives. A row maps column names to cells; the  *)
(* subjid column holds the subject id itself. A sheet (DataFrame) is       *)
(* [name, columns, rows]. Column names of the code book are transliterated.*)
(***************************************************************************)
NaNCell     == [kind |-> "nan", date |-> None, text |-> <<>>]
DateCell(d) == [kind |-> "date", date |-> d, text |-> <<>>]
StrCell(t)  == [kind |-> "str", date |-> None, text |-> t]
NumCell(t)  == [kind |-> "num", date |-> None, text |-> t]

\* EVENT_TYPE_CODES.get(code)
EVENT_TYPE_CODES(code) ==
    CASE code = <<"1">> -> <<"death">>
      [] code = <<"2">> -> <<"mi">>
      [] code = <<"3">> -> <<"revascularization">>
      [] code = <<"4">> -> <<"heart_failure">>
      [] code = <<"5">> -> <<"angina">>
      [] code = <<"6">> -> <<"hospitalization">>
      [] OTHER -> None

\* FIELD_MAPPING[field]
FIELD_MAPPING(field) ==
    CASE field = "patient_id" -> <<"subjid", "patient_id">>
      [] field = "enrollment_date" -> <<"groupdate", "enrollment_date">>
      [] field = "visit_date" -> <<"visit_date_1", "visit_date">>
      [] field = "death_date" -> <<"death_time_1", "death_date">>
      [] field = "loss_to_followup" -> <<"followup_missing_1", "loss_to_followup">>
      [] field = "cardiovascular_event" ->
             <<"cv_adverse_event_1", "major_cv_adverse_event_1", "cardiovascular_event">>
      [] field = "event_type" -> <<"adverse_event_what_1", "cv_event_1", "event_type">>
      [] field = "coronary_intervention" ->
             <<"coronary_angiography_ct_or_intervention_1", "coronary_intervention">>
      [] field = "intervention_date" ->
             <<"coronary_angiography_ct_or_intervention_time_1", "intervention_date">>
      [] field = "coronary_bypass" -> <<"later_coronary_bypass_1", "coronary_bypass">>
      [] field = "bypass_date" -> <<"coronary_bypass_date_1", "bypass_date">>
      [] field = "revascularization_treatment" ->
             <<"revascularization_since_last_contact_1", "revascularization_treatment">>
      [] field = "revascularization_type" -> <<"if_so_what_treatment_1", "revascularization_type">>
      [] field = "revascularization_date" -> <<"treatment_time_1", "revascularization_date">>
      [] field = "revascularization_detail" ->
             <<"treatment_detail", "revascularization_detail">>

\* LongitudinalDataImporter._get_field_value: the cell, or None
get_field_value(row, field_mapping_keys) ==
    LET usable == {i \in 1..Len(field_mapping_keys) :
                      /\ field_mapping_keys[i] \in DOMAIN row
                      /\ row[field_mapping_keys[i]].kind # "nan"
                      /\ ~(row[field_mapping_keys[i]].kind = "str"
                           /\ Strip(row[field_mapping_keys[i]].text) = <<>>)}
    IN IF usable = {} THEN None
       ELSE row[field_mapping_keys[CHOOSE i \in usable : \A j \in usable : i <= j]]

\* value.split(sep)
RECURSIVE Split(_, _)
Split(s, sep) ==
    LET at == {i \in 1..Len(s) : s[i] = sep} IN
    IF at = {} THEN <<s>>
    ELSE LET i == CHOOSE x \in at : \A y \in at : x <= y
         IN <<SubSeq(s, 1, i - 1)>> \o Split(SubSeq(s, i + 1, Len(s)), sep)

Pad(n, width) ==
    LET t == NumeralOf(n) IN
    IF Len(t) >= width THEN t ELSE [i \in 1..(width - Len(t)) |-> "0"] \o t

\* str(value) of a cell
StrOf(cell) ==
    IF cell.kind = "nan" THEN <<"n", "a", "n">>
    ELSE IF cell.kind = "date"
    THEN Pad(cell.date[1], 4) \o <<"-">> \o Pad(cell.date[2], 2) \o <<"-">> \o Pad(cell.date[3], 2)
    ELSE cell.text

\* bool(value) of a cell _get_field_value returned
Truthy(cell) ==
    IF cell.kind = "num"
    THEN LET f == FloatOf(cell.text) IN f.nan \/ f.whole # 0 \/ f.frac # <<>>
    ELSE TRUE

\* str(v) if v else None, for v = _get_field_value(...)
StrOrNone(cell) == IF cell # None /\ Truthy(cell) THEN StrOf(cell) ELSE None

\* A parser that gives up at the first code it does not know
parse_event_codes_StopAtUnknown(event_code_value) ==
    IF event_code_value = None \/ event_code_value.kind = "nan" THEN <<>>
    ELSE LET code_str == Strip(StrOf(event_code_value))
             codes == Split(code_str, ",")
             unknown == {i \in 1..Len(codes) : EVENT_TYPE_CODES(Strip(codes[i])) = None}
             upto == IF unknown = {} THEN Len(codes)
                     ELSE (CHOOSE i \in unknown : \A j \in unknown : i <= j) - 1
         IN IF code_str = <<>> THEN <<>>
            ELSE [i \in 1..upto |-> EVENT_TYPE_CODES(Strip(codes[i]))[1]]

\* LongitudinalDataImporter._parse_event_codes
parse_event_codes(event_code_value) ==
    IF event_code_value = None \/ event_code_value.kind = "nan" THEN <<>>
    ELSE LET code_str == Strip(StrOf(event_code_value))
             codes == Split(code_str, ",")
             known == SelectSeq([i \in 1..Len(codes) |-> EVENT_TYPE_CODES(Strip(codes[i]))],
                                LAMBDA c : c # None)
         IN IF code_str = <<>> THEN <<>>
            ELSE [i \in 1..Len(known) |-> known[i][1]]

(***************************************************************************)
(* LongitudinalDataImporter._parse_date.                                   *)
(***************************************************************************)
\* date(y, m, d) from the digit strings strptime matched, None for a
\* ValueError
DateOfFields(y, m, d) ==
    IF /\ IsDigitStr(y) /\ Len(y) = 4 /\ IntOf(y) >= 1
       /\ IsDigitStr(m) /\ Len(m) <= 2 /\ IntOf(m) \in 1..12
       /\ IsDigitStr(d) /\ Len(d) <= 2 /\ IntOf(d) >= 1
       /\ IntOf(d) <= DaysInMonth(IntOf(y), IntOf(m))
    THEN <<IntOf(y), IntOf(m), IntOf(d)>>
    ELSE None

\* datetime.strptime(value, fmt).date() for the formats with a separator;
\* order gives the positions of year, month and day among the three parts
StrptimeSeparated(value, sep, order) ==
    LET parts == Split(value, sep) IN
    IF Len(parts) = 3
    THEN DateOfFields(parts[order[1]], parts[order[2]], parts[order[3]])
    ELSE None

\* datetime.strptime(value, '%Y%m%d').date(): the month takes two digits when
\* the pattern can still match the whole of value
StrptimeCompact(value) ==
    LET n == Len(value)
        fits(lm) == /\ n - 4 - lm \in 1..2
                    /\ IntOf(SubSeq(value, 5, 4 + lm)) \in 1..12
                    /\ IntOf(SubSeq(value, 5 + lm, n)) \in 1..31
        fields(lm) == DateOfFields(SubSeq(value, 1, 4), SubSeq(value, 5, 4 + lm),
                                   SubSeq(value, 5 + lm, n))
    IN IF ~IsDigitStr(value) \/ n < 6 \/ n > 8 THEN None
       ELSE IF fits(2) THEN fields(2)
       ELSE IF fits(1) THEN fields(1)
       ELSE None

\* The first of the date_formats that parses value
ParseDateString(value) ==
    LET tries == << StrptimeSeparated(value, "-", <<1, 2, 3>>),
                    StrptimeSeparated(value, "/", <<1, 2, 3>>),
                    StrptimeSeparated(value, "-", <<3, 2, 1>>),
                    StrptimeSeparated(value, "/", <<3, 2, 1>>),
                    StrptimeCompact(value),
                    StrptimeSeparated(value, "/", <<3, 1, 2>>) >>
        parsed == {i \in 1..Len(tries) : tries[i] # None}
    IN IF parsed = {} THEN None
       ELSE tries[CHOOSE i \in parsed : \A j \in parsed : i <= j]

\* date.fromordinal(n)
RECURSIVE YearOfOrdinal(_, _)
YearOfOrdinal(n, y) == IF n > DaysBeforeYear(y + 1) THEN YearOfOrdinal(n, y + 1) ELSE y

RECURSIVE MonthOfDay(_, _, _)
MonthOfDay(y, m, day) ==
    IF day > DaysBeforeMonth(y, m) + DaysInMonth(y, m) THEN MonthOfDay(y, m + 1, day) ELSE m

FromOrdinal(n) ==
    LET y == YearOfOrdinal(n, (n \div 366) + 1)
        day == n - DaysBeforeYear(y)
        m == MonthOfDay(y, 1, day)
    IN <<y, m, day - DaysBeforeMonth(y, m)>>

\* LongitudinalDataImporter._parse_date
parse_date(value) ==
    IF value = None \/ value.kind = "nan" THEN None
    ELSE IF value.kind = "date" THEN value.date
    ELSE IF value.kind = "str"
    THEN LET stripped == Strip(value.text) IN
         IF stripped = <<>> THEN None ELSE ParseDateString(stripped)
    ELSE LET f == FloatOf(value.text) IN
         IF f.nan \/ ToOrdinal(<<1900, 1, 1>>) + f.whole - 2 < 1 THEN None
         ELSE FromOrdinal(ToOrdinal(<<1900, 1, 1>>) + f.whole - 2)

(***************************************************************************)
(* LongitudinalDataImporter: the Record Assembler.                         *)
(***************************************************************************)
\* LongitudinalDataImporter._extract_time_point_data
extract_time_point_data(row, time_point_name, months) ==
    LET loss_to_followup_value == get_field_value(row, FIELD_MAPPING("loss_to_followup")) IN
    [time_point |-> time_point_name,
     months |-> months,
     visit_date |-> parse_date(get_field_value(row, FIELD_MAPPING("visit_date"))),
     is_lost_to_followup |->
         IF loss_to_followup_value # None THEN Truthy(loss_to_followup_value) ELSE FALSE,
     death_date |-> parse_date(get_field_value(row, FIELD_MAPPING("death_date"))),
     cardiovascular_event |->
         StrOrNone(get_field_value(row, FIELD_MAPPING("cardiovascular_event"))),
     event_types |-> parse_event_codes(get_field_value(row, FIELD_MAPPING("event_type"))),
     coronary_intervention |->
         StrOrNone(get_field_value(row, FIELD_MAPPING("coronary_intervention"))),
     intervention_date |->
         parse_date(get_field_value(row, FIELD_MAPPING("intervention_date"))),
     coronary_bypass |-> StrOrNone(get_field_value(row, FIELD_MAPPING("coronary_bypass"))),
     bypass_date |-> parse_date(get_field_value(row, FIELD_MAPPING("bypass_date"))),
     revascularization_treatment |->
         StrOrNone(get_field_value(row, FIELD_MAPPING("revascularization_treatment"))),
     revascularization_type |->
         StrOrNone(get_field_value(row, FIELD_MAPPING("revascularization_type"))),
     revascularization_date |->
         parse_date(get_field_value(row, FIELD_MAPPING("revascularization_date"))),
     revascularization_detail |->
         StrOrNone(get_field_value(row, FIELD_MAPPING("revascularization_detail"))),
     \* row.to_dict(): a value is held as the text str() gives for it
     raw_data |-> [k \in DOMAIN row |-> IF k = "subjid" THEN row[k] ELSE StrOf(row[k])]]

\* df[df['subjid'] == patient_id] if 'subjid' in df.columns else None; None
\* and the empty selection are both <<>>
PatientRows(df, patient_id) ==
    IF "subjid" \in df.columns
    THEN SelectSeq(df.rows, LAMBDA r : r["subjid"] = patient_id)
    ELSE <<>>

\* LongitudinalDataImporter._get_basic_info_sheet: <<df>> or None
get_basic_info_sheet(sheets) ==
    LET named == {i \in 1..Len(sheets) : Contains(sheets[i].name, BasicInfoLabel)} IN
    IF named # {} THEN <<sheets[CHOOSE i \in named : \A j \in named : i <= j]>>
    ELSE IF sheets # <<>> THEN <<sheets[1]>>
    ELSE None

\* LongitudinalDataImporter._extract_basic_info: of the basic information
\* only the enrollment date is modelled
extract_basic_info(patient_id, basic_info_df) ==
    LET patient_rows == PatientRows(basic_info_df, patient_id) IN
    IF patient_rows = <<>> THEN [enrollment_date |-> None]
    ELSE [enrollment_date |->
              parse_date(get_field_value(patient_rows[1], FIELD_MAPPING("enrollment_date")))]

\* A loop that takes the enrollment date also from the rows of a sheet whose
\* name yields no time point
RECURSIVE ScanSheets_FallbackFromAnySheet(_, _, _, _)
ScanSheets_FallbackFromAnySheet(sheets, i, patient_id, acc) ==
    IF i > Len(sheets) THEN acc
    ELSE LET df == sheets[i]
             info == extract_time_point_info(df.name)
             patient_rows == PatientRows(df, patient_id)
         IN IF patient_rows = <<>>
            THEN ScanSheets_FallbackFromAnySheet(sheets, i + 1, patient_id, acc)
            ELSE LET row == patient_rows[1]
                     enrollment ==
                         IF acc.patient_enrollment_date = None
                         THEN parse_date(get_field_value(row, FIELD_MAPPING("enrollment_date")))
                         ELSE acc.patient_enrollment_date
                 IN ScanSheets_FallbackFromAnySheet(sheets, i + 1, patient_id,
                        [time_points |->
                             IF info = None THEN acc.time_points
                             ELSE Append(acc.time_points,
                                         extract_time_point_data(row, info[1], info[2])),
                         patient_enrollment_date |-> enrollment])

\* The loop of _create_longitudinal_record over self.sheet_data.items(), from
\* sheet i on; acc is [time_points, patient_enrollment_date]
RECURSIVE ScanSheets(_, _, _, _)
ScanSheets(sheets, i, patient_id, acc) ==
    IF i > Len(sheets) THEN acc
    ELSE LET df == sheets[i]
             info == extract_time_point_info(df.name)
             patient_rows == PatientRows(df, patient_id)
         IN IF info = None \/ patient_rows = <<>>
            THEN ScanSheets(sheets, i + 1, patient_id, acc)
            ELSE LET row == patient_rows[1]
                     enrollment ==
                         IF acc.patient_enrollment_date = None
                         THEN parse_date(get_field_value(row, FIELD_MAPPING("enrollment_date")))
                         ELSE acc.patient_enrollment_date
                 IN ScanSheets(sheets, i + 1, patient_id,
                        [time_points |-> Append(acc.time_points,
                                                extract_time_point_data(row, info[1], info[2])),
                         patient_enrollment_date |-> enrollment])

\* basic_info.get('enrollment_date') of _create_longitudinal_record
BasicEnrollmentDate(patient_id, basic_info_df) ==
    IF basic_info_df # None
    THEN extract_basic_info(patient_id, basic_info_df[1]).enrollment_date
    ELSE None

\* The end of _create_longitudinal_record (lines 428-447), scanned being what
\* the loop over the sheets left: <<record>> or None
RecordOfScan(patient_id, scanned) ==
    IF scanned.patient_enrollment_date = None THEN None
    ELSE <<calculate_latest_followup(
               LongitudinalPatientRecord(patient_id, scanned.patient_enrollment_date,
                                         scanned.time_points))>>

\* LongitudinalDataImporter._create_longitudinal_record: <<record>> or None
create_longitudinal_record(sheets, patient_id) ==
    RecordOfScan(patient_id,
                 ScanSheets(sheets, 1, patient_id,
                            [time_points |-> <<>>,
                             patient_enrollment_date |->
                                 BasicEnrollmentDate(patient_id,
                                                     get_basic_info_sheet(sheets))]))

\* self.sheet_data[sheet_name] = df, for every sheet of the workbook in turn
RECURSIVE StoreSheets(_, _)
StoreSheets(sheets, workbook) ==
    IF workbook = <<>> THEN sheets
    ELSE LET df == Head(workbook)
             at == {i \in 1..Len(sheets) : sheets[i].name = df.name}
         IN StoreSheets(IF at = {} THEN Append(sheets, df)
                        ELSE [sheets EXCEPT ![CHOOSE i \in at : TRUE] = df],
                        Tail(workbook))

\* LongitudinalDataImporter.load_excel_file for an existing workbook whose
\* sheets all read: the new sheet_data
load_excel_file(sheets, workbook) == StoreSheets(sheets, workbook)

\* The path of the workbook the pipeline is given
WorkbookPath == "followup.xlsx"

(***************************************************************************)
(* Specification SpecImport: a workbook is loaded and the record of a      *)
(* subject is assembled.                                                   *)
(***************************************************************************)
Label6Numeric == NumericLabel(6, <<"sui", "fang">>)
Label36       == NumericLabel(36, <<"sui", "fang">>)

ImportSheetNames ==
    {BasicInfoLabel, Label6, Label6Numeric, Label12, Label36, FallbackLabel(6),
     UnrecognizedLabel}

SheetColumns == {"subjid", "groupdate", "visit_date_1", "adverse_event_what_1"}

EnrollmentText == <<"2", "0", "2", "0", "-", "0", "1", "-", "0", "1">>

\* The rows of subject P1 a sheet can hold
PatientRowsMenu ==
    {[k \in SheetColumns |->
         CASE k = "subjid" -> "P1"
           [] k = "groupdate" -> g
           [] k = "visit_date_1" -> v[1]
           [] k = "adverse_event_what_1" -> v[2]] :
        g \in {NaNCell, StrCell(EnrollmentText)},
        v \in {<<NaNCell, NaNCell>>, <<DateCell(VisitMonth6), NaNCell>>,
               <<DateCell(VisitMonth6), StrCell(<<"5", ",", "9">>)>>}}

DataFrames ==
    {[name |-> n, columns |-> SheetColumns, rows |-> r] :
        n \in ImportSheetNames, r \in {<<>>} \cup {<<row>> : row \in PatientRowsMenu}}

\* The sheets of a workbook carry different names
Workbooks ==
    UNION {{wb \in [1..k -> DataFrames] :
               \A i, j \in 1..k : i # j => wb[i].name # wb[j].name} : k \in 1..MaxSheets}

InitImport ==
    /\ pc = "importer"
    /\ sheet_data = <<>>
    /\ sheet_name = <<>>
    /\ time_point_info = None
    /\ endpoint = "death"
    /\ patient_record = None
    /\ followup_record = None
    /\ ExtractIdle
    /\ BatchIdle
    /\ CodesIdle
    /\ RunsIdle
    /\ FilesIdle
    /\ LegacyIdle

\* importer.load_excel_file(file_path)
LoadExcelFile ==
    /\ pc = "importer"
    /\ \E wb \in Workbooks : sheet_data' = load_excel_file(sheet_data, wb)
    /\ file_path' = <<WorkbookPath>>
    /\ excel_file' = <<WorkbookPath>>
    /\ pc' = "loaded"
    /\ UNCHANGED <<sheet_name, time_point_info, procVars, extractVars,
                 batchVars, codeVars, runVars, legacyVars>>

\* record = self._create_longitudinal_record(patient_id)
CreateLongitudinalRecord ==
    /\ pc = "loaded"
    /\ \E record \in {create_longitudinal_record(sheet_data, "P1")} :
           /\ patient_record' = IF record # None THEN record[1] ELSE None
           /\ pc' = IF record # None THEN "created" ELSE "skipped"
    /\ UNCHANGED <<endpoint, followup_record, importVars, extractVars,
                 batchVars, codeVars, runVars, fileVars, legacyVars>>

NextImport == LoadExcelFile \/ CreateLongitudinalRecord

SpecImport == InitImport /\ [][NextImport]_vars

(***************************************************************************)
(* C10. In every Timeline produced by _create_longitudinal_record no two   *)
(* TimePointObservations have the same month offset, for any set of input  *)
(* tables with recognized labels.                                          *)
(***************************************************************************)
C10_MonthOffsetsUnique ==
    pc = "created" =>
        \A i, j \in 1..Len(patient_record.time_points) :
            i # j => patient_record.time_points[i].months # patient_record.time_points[j].months

(***************************************************************************)
(* C11. In every Timeline produced by _create_longitudinal_record the      *)
(* time_points sequence is ordered ascending by month offset, whatever the *)
(* order in which the sheets were supplied.                                *)
(***************************************************************************)
C11_TimePointsAscending ==
    pc = "created" =>
        \A i, j \in 1..Len(patient_record.time_points) :
            i < j => patient_record.time_points[i].months <= patient_record.time_points[j].months

(***************************************************************************)
(* Specification SpecStatus: process_followup on Timelines whose time      *)
(* points carry lost-to-follow-up flags and whose latest follow-up month   *)
(* is the one _calculate_latest_followup leaves or one the caller gave to  *)
(* the constructor, as tests/test_longitudinal.py does.                    *)
(***************************************************************************)
StatusMonths == {3, 12, 60}

StatusTimePoints ==
    {[TimePointData(NumericLabel(m, <<"sui", "fang">>), m) EXCEPT
         !.visit_date = v, !.is_lost_to_followup = l] :
         m \in StatusMonths, v \in {None, VisitMonth6}, l \in BOOLEAN}

StatusTimelines == UNION {[1..k -> StatusTimePoints] : k \in 0..MaxTimePoints}

GivenLatestMonths == {None, <<3>>, <<11>>, <<12>>, <<59>>, <<60>>, <<120>>}

StatusRecords ==
    {calculate_latest_followup(LongitudinalPatientRecord("P1", EnrollmentDate, tps)) :
         tps \in StatusTimelines}
    \cup
    {[LongitudinalPatientRecord("P1", EnrollmentDate, tps) EXCEPT
         !.latest_followup_months = m] : tps \in StatusTimelines, m \in GivenLatestMonths}

InitStatus ==
    /\ pc = "assembled"
    /\ endpoint = "death"
    /\ patient_record \in StatusRecords
    /\ followup_record = None
    /\ ExtractIdle
    /\ BatchIdle
    /\ CodesIdle
    /\ RunsIdle
    /\ FilesIdle
    /\ LegacyIdle
    /\ ImportIdle

NextStatus == ProcessFollowup

SpecStatus == InitStatus /\ [][NextStatus]_vars

(***************************************************************************)
(* C12. total_followup_status equals the reference: no time points gives   *)
(* no_data; otherwise a lost-to-follow-up flag at any time point gives     *)
(* lost_to_followup whatever the month offset; otherwise the latest        *)
(* follow-up month >= 60 gives complete, >= 12 adequate, < 12 incomplete,  *)
(* and an unknown month gives unknown.                                     *)
(***************************************************************************)
C12_StatusReference ==
    Processed =>
        LET tps == patient_record.time_points
            latest == patient_record.latest_followup_months
            status == followup_record.total_followup_status
        IN /\ tps = <<>> => status = "no_data"
           /\ (tps # <<>> /\ \E i \in 1..Len(tps) : tps[i].is_lost_to_followup)
                  => status = "lost_to_followup"
           /\ (tps # <<>> /\ \A i \in 1..Len(tps) : ~tps[i].is_lost_to_followup) =>
                  /\ latest = None => status = "unknown"
                  /\ (latest # None /\ latest[1] >= 60) => status = "complete"
                  /\ (latest # None /\ latest[1] >= 12 /\ latest[1] < 60)
                         => status = "adequate"
                  /\ (latest # None /\ latest[1] < 12) => status = "incomplete"

\* an earlier time point is flagged lost while the latest follow-up is at month 60
C12_Witness ==
    /\ Processed
    /\ Len(patient_record.time_points) = 2
    /\ patient_record.time_points[1].is_lost_to_followup
    /\ ~patient_record.time_points[2].is_lost_to_followup
    /\ patient_record.latest_followup_months = <<60>>
    /\ followup_record.total_followup_status = "lost_to_followup"

(***************************************************************************)
(* C13. In every assembled Timeline the latest follow-up is a time point   *)
(* with the greatest month offset among those that have a visit date: its  *)
(* visit date, its month offset and visit date minus enrollment date in    *)
(* days are recorded; all three stay null when no time point has a visit   *)
(* date. A later month without a visit date does not override it and a     *)
(* smaller month with a later calendar date is not chosen.                 *)
(***************************************************************************)
C13_LatestFollowupResolution ==
    pc \in {"assembled", "processed"} =>
        LET tps == patient_record.time_points
            dated == {i \in 1..Len(tps) : tps[i].visit_date # None}
        IN IF dated = {}
           THEN /\ patient_record.latest_followup_date = None
                /\ patient_record.latest_followup_months = None
                /\ patient_record.days_to_latest_followup = None
           ELSE \E i \in dated :
                    /\ \A j \in dated : tps[j].months <= tps[i].months
                    /\ patient_record.latest_followup_date = tps[i].visit_date
                    /\ patient_record.latest_followup_months = <<tps[i].months>>
                    /\ patient_record.days_to_latest_followup =
                           <<DaysBetween(tps[i].visit_date, patient_record.enrollment_date)>>

\* the month-6 visit has the later calendar date, the month-12 visit is the latest
C13_Witness ==
    /\ pc = "assembled"
    /\ Len(patient_record.time_points) = 2
    /\ patient_record.time_points[1].months = 12
    /\ patient_record.time_points[1].visit_date = VisitMonth6
    /\ patient_record.time_points[2].months = 6
    /\ patient_record.time_points[2].visit_date = VisitMonth12
    /\ patient_record.latest_followup_date = VisitMonth6
    /\ patient_record.latest_followup_months = <<12>>
    /\ patient_record.days_to_latest_followup = <<186>>

(***************************************************************************)
(* Vocabulary of the first-occurrence claims.                              *)
(***************************************************************************)
ClinicalCategories ==
    {"death", "myocardial_infarction", "revascularization", "heart_failure", "angina",
     "hospitalization"}

\* The events of canonical category c the Event Extractor emits for tp, in
\* emission order
EventsOfCategory(tp, c) ==
    SelectSeq(identify_all_events(tp), LAMBDA e : CanonicalCategory(e[1]) = c)

\* first_<category>_date, first_<category>_time_point and
\* days_to_first_<category> of an OutcomeRecord
FirstOccurrence(fr, c) ==
    CASE c = "death" ->
             [date |-> fr.first_death_date, time_point |-> fr.first_death_time_point,
              days |-> fr.days_to_first_death]
      [] c = "myocardial_infarction" ->
             [date |-> fr.first_mi_date, time_point |-> fr.first_mi_time_point,
              days |-> fr.days_to_first_mi]
      [] c = "revascularization" ->
             [date |-> fr.first_revascularization_date,
              time_point |-> fr.first_revascularization_time_point,
              days |-> fr.days_to_first_revascularization]
      [] c = "heart_failure" ->
             [date |-> fr.first_heart_failure_date,
              time_point |-> fr.first_heart_failure_time_point,
              days |-> fr.days_to_first_heart_failure]
      [] c = "angina" ->
             [date |-> fr.first_angina_date, time_point |-> fr.first_angina_time_point,
              days |-> fr.days_to_first_angina]
      [] c = "hospitalization" ->
             [date |-> fr.first_hospitalization_date,
              time_point |-> fr.first_hospitalization_time_point,
              days |-> fr.days_to_first_hospitalization]

(***************************************************************************)
(* C14. For each of the six clinical categories the first-occurrence date  *)
(* and time-point label of the OutcomeRecord are those of the event of     *)
(* that category emitted at a time point of the smallest month offset      *)
(* among the time points emitting the category, whichever extraction path  *)
(* produced it; without such an event the slot is empty.                   *)
(***************************************************************************)
C14_FirstOccurrenceIsEarliestTimePoint ==
    Processed =>
        \A c \in ClinicalCategories :
            LET tps == patient_record.time_points
                with == {i \in 1..Len(tps) : EventsOfCategory(tps[i], c) # <<>>}
                first == FirstOccurrence(followup_record, c)
            IN IF with = {}
               THEN first.date = None /\ first.time_point = None
               ELSE \E i \in with :
                        /\ \A j \in with : tps[i].months <= tps[j].months
                        /\ first.date = EventsOfCategory(tps[i], c)[1][2]
                        /\ first.time_point = tps[i].time_point

(***************************************************************************)
(* Specification SpecDays: process_followup on Timelines whose events fall *)
(* on, before and after the enrollment date, by each extraction path.      *)
(***************************************************************************)
EventDates == {EnrollmentDate, BeforeEnrollment, VisitMonth6}

DaysTimePointsAt(label, months) ==
    LET base == TimePointData(label, months) IN
    {[base EXCEPT !.death_date = d] : d \in EventDates}
    \cup
    {[base EXCEPT !.visit_date = d, !.event_types = l] :
         d \in EventDates, l \in {<<"mi">>, <<"angina">>}}
    \cup
    {[base EXCEPT !.visit_date = d, !.cardiovascular_event = <<"1">>,
                  !.raw_data = [k \in {"adverse_event_what_1"} |-> c]] :
         d \in EventDates, c \in {<<"1", ".", "0">>, <<"2", ".", "0">>}}

DaysTimelines ==
    UNION {[1..k -> DaysTimePointsAt(Label6, 6) \cup DaysTimePointsAt(Label12, 12)] :
               k \in 0..MaxTimePoints}

InitDays ==
    /\ pc = "assembled"
    /\ endpoint = "death"
    /\ patient_record \in
           {calculate_latest_followup(LongitudinalPatientRecord("P1", EnrollmentDate, tps)) :
                tps \in DaysTimelines}
    /\ followup_record = None
    /\ ExtractIdle
    /\ BatchIdle
    /\ CodesIdle
    /\ RunsIdle
    /\ FilesIdle
    /\ LegacyIdle
    /\ ImportIdle

NextDays == ProcessFollowup

SpecDays == InitDays /\ [][NextDays]_vars

(***************************************************************************)
(* C15. For every clinical category whose first-occurrence date is set in  *)
(* the OutcomeRecord, days-since-enrollment is that date minus the         *)
(* enrollment date, reported also when it is zero or negative; date,       *)
(* time-point label and days come from one emitted event.                  *)
(***************************************************************************)
C15_DaysAreDateMinusEnrollment ==
    Processed =>
        \A c \in ClinicalCategories :
            LET tps == patient_record.time_points
                first == FirstOccurrence(followup_record, c)
            IN first.date # None =>
                   /\ first.days = <<DaysBetween(first.date, patient_record.enrollment_date)>>
                   /\ \E i \in 1..Len(tps) :
                          \E k \in 1..Len(EventsOfCategory(tps[i], c)) :
                              /\ first.date = EventsOfCategory(tps[i], c)[k][2]
                              /\ first.time_point = tps[i].time_point

\* The events of a Timeline in the order the scan meets them: time points by
\* ascending months, within a time point in emission order; each entry is
\* <<event_type, event_date, time_point, months>>.
RECURSIVE ScanOrder(_)
ScanOrder(tps) ==
    IF tps = <<>> THEN <<>>
    ELSE LET tp == Head(tps)
             evs == identify_all_events(tp)
         IN [k \in 1..Len(evs) |-> <<evs[k][1], evs[k][2], tp.time_point, tp.months>>]
            \o ScanOrder(Tail(tps))

(***************************************************************************)
(* C16. The overall first event of the OutcomeRecord is the emitted event  *)
(* of minimum date over all time points and categories; among events of    *)
(* that date the one met first in the ascending-month scan is reported; it *)
(* is null iff no event was emitted, and its date is never later than a    *)
(* per-category first-occurrence date.                                     *)
(***************************************************************************)
C16_OverallFirstEventIsMinimum ==
    Processed =>
        LET fr == followup_record
            scan == ScanOrder(SortedByMonths(patient_record.time_points))
        IN /\ (fr.first_event_date = None) <=> (scan = <<>>)
           /\ (fr.first_event_type = None) <=> (scan = <<>>)
           /\ scan # <<>> =>
                  \E k \in 1..Len(scan) :
                      /\ \A j \in 1..Len(scan) : ~DateLess(scan[j][2], scan[k][2])
                      /\ \A j \in 1..(k - 1) : scan[j][2] # scan[k][2]
                      /\ fr.first_event_type = <<scan[k][1]>>
                      /\ fr.first_event_date = scan[k][2]
                      /\ fr.first_event_time_point = scan[k][3]
                      /\ fr.first_event_months = <<scan[k][4]>>
           /\ \A c \in ClinicalCategories :
                  FirstOccurrence(fr, c).date # None =>
                      ~DateLess(FirstOccurrence(fr, c).date, fr.first_event_date)

\* Two events share the minimum date, at different time points, and an event
\* of another category and a procedure event are among the emitted ones.
C16_Witness ==
    /\ Processed
    /\ LET scan == ScanOrder(SortedByMonths(patient_record.time_points))
       IN /\ Len(scan) >= 2
          /\ \E j, k \in 1..Len(scan) :
                 /\ j < k
                 /\ scan[j][2] = scan[k][2]
                 /\ scan[j][4] < scan[k][4]
                 /\ scan[j][1] # scan[k][1]
                 /\ \A i \in 1..Len(scan) : ~DateLess(scan[i][2], scan[j][2])
                 /\ followup_record.first_event_type = <<scan[j][1]>>

(***************************************************************************)
(* LongitudinalDataImporter.import_longitudinal_data                       *)
(***************************************************************************)
\* Series.unique().tolist(): the values in order of first appearance
RECURSIVE Unique(_)
Unique(values) ==
    IF values = <<>> THEN <<>>
    ELSE LET front == Unique(SubSeq(values, 1, Len(values) - 1))
             last == values[Len(values)]
         IN IF \E i \in 1..Len(front) : front[i] = last THEN front ELSE Append(front, last)

\* LongitudinalDataImporter._get_unique_patients
get_unique_patients(df) ==
    IF "subjid" \in df.columns
    THEN Unique([i \in 1..Len(df.rows) |-> df.rows[i]["subjid"]])
    ELSE IF "patient_id" \in df.columns
    THEN Unique([i \in 1..Len(df.rows) |-> df.rows[i]["patient_id"]])
    ELSE <<>>

\* A loop over the subjects that ends at the first one without a record
RECURSIVE CollectRecords_StopAtMissing(_, _)
CollectRecords_StopAtMissing(sheets, patient_ids) ==
    IF patient_ids = <<>> THEN <<>>
    ELSE IF create_longitudinal_record(sheets, Head(patient_ids)) = None THEN <<>>
    ELSE create_longitudinal_record(sheets, Head(patient_ids))
         \o CollectRecords_StopAtMissing(sheets, Tail(patient_ids))

\* The loop of import_longitudinal_data over patient_ids (lines 271-278): a
\* record is appended when it is one (None is <<>>, a record <<record>>)
RECURSIVE CollectRecords(_, _)
CollectRecords(sheets, patient_ids) ==
    IF patient_ids = <<>> THEN <<>>
    ELSE create_longitudinal_record(sheets, Head(patient_ids))
         \o CollectRecords(sheets, Tail(patient_ids))

import_longitudinal_data(sheets) ==
    IF sheets = <<>> THEN <<>>
    ELSE CollectRecords(sheets, get_unique_patients(sheets[1]))

(***************************************************************************)
(* Specification SpecSubjects: a workbook with the rows of several         *)
(* subjects is loaded and import_longitudinal_data assembles the batch.    *)
(***************************************************************************)
SubjectIds == {"P1", "P2"}

SubjectSheetNames == {BasicInfoLabel, Label6, Label12}

\* The row of a subject, with or without the enrollment date
SubjectRow(patient_id, groupdate) ==
    [k \in SheetColumns |->
        CASE k = "subjid" -> patient_id
          [] k = "groupdate" -> groupdate
          [] k = "visit_date_1" -> DateCell(VisitMonth6)
          [] k = "adverse_event_what_1" -> NaNCell]

\* One row per subject: the rows of a sheet list a subject at most once
SubjectRowLists ==
    {rows \in UNION {[1..k -> {SubjectRow(p, g) : p \in SubjectIds,
                                                  g \in {NaNCell, StrCell(EnrollmentText)}}] :
                        k \in 0..Cardinality(SubjectIds)} :
        \A i, j \in 1..Len(rows) : i # j => rows[i]["subjid"] # rows[j]["subjid"]}

SubjectWorkbooks ==
    UNION {{wb \in [1..k -> {[name |-> n, columns |-> SheetColumns, rows |-> r] :
                                n \in SubjectSheetNames, r \in SubjectRowLists}] :
               \A i, j \in 1..k : i # j => wb[i].name # wb[j].name} : k \in 1..MaxSheets}

\* importer.load_excel_file(file_path) on a workbook of several subjects
LoadSubjectsFile ==
    /\ pc = "importer"
    /\ \E wb \in SubjectWorkbooks : sheet_data' = load_excel_file(sheet_data, wb)
    /\ file_path' = <<WorkbookPath>>
    /\ excel_file' = <<WorkbookPath>>
    /\ pc' = "loaded"
    /\ UNCHANGED <<sheet_name, time_point_info, procVars, extractVars,
                 batchVars, codeVars, runVars, legacyVars>>

\* patient_records = importer.import_longitudinal_data()
ImportLongitudinalData ==
    /\ pc = "loaded"
    /\ patient_records' = import_longitudinal_data(sheet_data)
    /\ pc' = "imported"
    /\ UNCHANGED <<followup_records, procVars, extractVars, importVars, codeVars, runVars,
                 fileVars, legacyVars>>

NextSubjects == LoadSubjectsFile \/ ImportLongitudinalData

SpecSubjects == InitImport /\ [][NextSubjects]_vars

\* The enrollment date the row of a subject in a table carries, None without
\* a row or a date
EnrollmentOfRow(df, patient_id) ==
    LET rows == PatientRows(df, patient_id) IN
    IF rows = <<>> THEN None
    ELSE parse_date(get_field_value(rows[1], FIELD_MAPPING("enrollment_date")))

\* The time-point tables: those whose label yields a month offset
TimePointTables(sheets) == {i \in 1..Len(sheets) : extract_time_point_info(sheets[i].name) # None}

\* The enrollment date of a subject: the baseline table's, else that of the
\* first time-point table whose row has one; None when there is none
ResolvedEnrollment(sheets, patient_id) ==
    LET baseline == EnrollmentOfRow(get_basic_info_sheet(sheets)[1], patient_id)
        having == {i \in TimePointTables(sheets) :
                       EnrollmentOfRow(sheets[i], patient_id) # None}
    IN IF baseline # None THEN baseline
       ELSE IF having = {} THEN None
       ELSE EnrollmentOfRow(sheets[CHOOSE i \in having : \A j \in having : i <= j],
                            patient_id)

Imported == pc = "imported"

(***************************************************************************)
(* C17. import_longitudinal_data returns, in the order of the subject      *)
(* list, exactly the subjects whose enrollment date resolves from the      *)
(* baseline table or from one of their time-point rows: a subject without  *)
(* one is left out and the others are kept; every Timeline has an          *)
(* enrollment date; a subject whose baseline lacks the date keeps the date *)
(* of a time-point row.                                                    *)
(***************************************************************************)
C17_SubjectsWithoutEnrollmentExcluded ==
    Imported =>
        LET ids == get_unique_patients(sheet_data[1])
            kept == SelectSeq(ids, LAMBDA p : ResolvedEnrollment(sheet_data, p) # None)
        IN /\ Len(patient_records) = Len(kept)
           /\ \A k \in 1..Len(kept) :
                  /\ patient_records[k].patient_id = kept[k]
                  /\ patient_records[k].enrollment_date # None
                  /\ patient_records[k].enrollment_date =
                         ResolvedEnrollment(sheet_data, kept[k])

\* The first subject has no enrollment date anywhere and is left out; the
\* second lacks it in the baseline table and takes it from a time-point row.
C17_Witness ==
    /\ Imported
    /\ Len(sheet_data) = 2
    /\ get_unique_patients(sheet_data[1]) = <<"P1", "P2">>
    /\ ResolvedEnrollment(sheet_data, "P1") = None
    /\ PatientRows(sheet_data[2], "P1") # <<>>
    /\ EnrollmentOfRow(get_basic_info_sheet(sheet_data)[1], "P2") = None
    /\ Len(patient_records) = 1
    /\ patient_records[1].patient_id = "P2"
    /\ patient_records[1].enrollment_date = EnrollmentDate

(***************************************************************************)
(* LongitudinalEventProcessor.process_batch                                *)
(***************************************************************************)
\* process_followup raises on a record whose enrollment_date is None: the
\* survival time subtracts it (line 375) and LongitudinalFollowupRecord
\* requires the field (longitudinal_models.py line 110).
ProcessFollowupRaises(rec) == rec.enrollment_date = None

\* A loop that ends at the first record whose processing raises
RECURSIVE process_batch_AbortOnError(_, _)
process_batch_AbortOnError(ep, records) ==
    IF records = <<>> THEN <<>>
    ELSE IF ProcessFollowupRaises(Head(records)) THEN <<>>
    ELSE <<process_followup(ep, Head(records))>>
         \o process_batch_AbortOnError(ep, Tail(records))

\* process_batch with self.endpoint = ep (lines 718-727): the exception of a
\* record is caught and the loop goes on
RECURSIVE process_batch(_, _)
process_batch(ep, records) ==
    IF records = <<>> THEN <<>>
    ELSE IF ProcessFollowupRaises(Head(records))
    THEN process_batch(ep, Tail(records))
    ELSE <<process_followup(ep, Head(records))>> \o process_batch(ep, Tail(records))

(***************************************************************************)
(* Specification SpecBatch: process_batch on a list of records some of     *)
(* which make process_followup raise.                                      *)
(***************************************************************************)
MaxBatch == 3

BatchIds == <<"P1", "P2", "P3", "P4">>

\* The records a subject can bring: a Timeline as assembled, or one whose
\* enrollment date was unset afterwards
BatchRecordsOf(patient_id) ==
    LET base == TimePointData(Label6, 6)
        assembled == {calculate_latest_followup(
                          LongitudinalPatientRecord(patient_id, EnrollmentDate, tps)) :
                         tps \in {<<>>, <<[base EXCEPT !.visit_date = VisitMonth6]>>,
                                  <<[base EXCEPT !.death_date = DeathDate]>>}}
    IN assembled \cup {[r EXCEPT !.enrollment_date = None] : r \in assembled}

BatchInputs ==
    UNION {{recs \in [1..k -> UNION {BatchRecordsOf(BatchIds[i]) : i \in 1..k}] :
               \A i \in 1..k : recs[i].patient_id = BatchIds[i]} : k \in 0..MaxBatch}

InitBatch ==
    /\ pc = "batch"
    /\ endpoint = "death"
    /\ patient_records \in BatchInputs
    /\ followup_records = <<>>
    /\ patient_record = None
    /\ followup_record = None
    /\ ExtractIdle
    /\ ImportIdle
    /\ CodesIdle
    /\ RunsIdle
    /\ FilesIdle
    /\ LegacyIdle

\* followup_records = processor.process_batch(patient_records)
ProcessBatch ==
    /\ pc = "batch"
    /\ followup_records' = process_batch(endpoint, patient_records)
    /\ pc' = "batched"
    /\ UNCHANGED <<patient_records, procVars, extractVars, importVars, codeVars, runVars,
                 fileVars, legacyVars>>

NextBatch == ProcessBatch

SpecBatch == InitBatch /\ [][NextBatch]_vars

Batched == pc = "batched"

(***************************************************************************)
(* C18. process_batch returns, whichever records make process_followup     *)
(* raise, exactly the OutcomeRecords of the other records in input order:  *)
(* the failing ones are left out and no record after a failing one is      *)
(* lost.                                                                   *)
(***************************************************************************)
C18_BatchSkipsFailingSubjects ==
    Batched =>
        LET passing == SelectSeq(patient_records, LAMBDA r : ~ProcessFollowupRaises(r))
        IN /\ Len(followup_records) = Len(passing)
           /\ \A k \in 1..Len(passing) :
                  followup_records[k] = process_followup(endpoint, passing[k])

\* A failing record stands between two passing ones, and both are returned.
C18_Witness ==
    /\ Batched
    /\ Len(patient_records) = 3
    /\ ~ProcessFollowupRaises(patient_records[1])
    /\ ProcessFollowupRaises(patient_records[2])
    /\ ~ProcessFollowupRaises(patient_records[3])
    /\ Len(followup_records) = 2
    /\ followup_records[1].patient_id = "P1"
    /\ followup_records[2].patient_id = "P3"
    /\ followup_records[2].first_death_date = DeathDate

\* The tables that hold a row of the subject
TablesOf(sheets, patient_id) == {i \in 1..Len(sheets) : PatientRows(sheets[i], patient_id) # <<>>}

(***************************************************************************)
(* C19. A table whose label yields no month offset is dropped: the record  *)
(* of the subject holds one TimePointObservation for each of the other     *)
(* tables with a row of the subject, in their order, and none for the      *)
(* dropped table, and the enrollment date is the baseline table's or that  *)
(* of a row of the other tables, never one that only the dropped table     *)
(* carries.                                                                *)
(***************************************************************************)
C19_UnrecognizedTableDropped ==
    pc \in {"created", "skipped"} =>
        LET used == TimePointTables(sheet_data) \cap TablesOf(sheet_data, "P1")
            resolved == ResolvedEnrollment(sheet_data, "P1")
        IN /\ (pc = "skipped") <=> (resolved = None)
           /\ pc = "created" =>
                  /\ patient_record.enrollment_date = resolved
                  /\ Len(patient_record.time_points) = Cardinality(used)
                  /\ \A k \in 1..Len(patient_record.time_points) :
                         \E i \in used :
                             /\ patient_record.time_points[k].time_point = sheet_data[i].name
                             /\ Cardinality({j \in used : j < i}) = k - 1

\* The only row with an enrollment date is in a table of unrecognized label
\* that is not the baseline table: the subject is left without a record.
C19_Witness ==
    /\ pc = "skipped"
    /\ Len(sheet_data) = 2
    /\ extract_time_point_info(sheet_data[1].name) # None
    /\ PatientRows(sheet_data[1], "P1") # <<>>
    /\ sheet_data[2].name = UnrecognizedLabel
    /\ EnrollmentOfRow(sheet_data[2], "P1") = EnrollmentDate

(***************************************************************************)
(* Specification SpecCodes: one cell of the event-code column goes through *)
(* _parse_event_codes.                                                     *)
(***************************************************************************)
MaxTokens == 3

\* What stands between the commas of an event-code cell
CodeTokens ==
    {<<"1">>, <<"2">>, <<"3">>, <<"4">>, <<"5">>, <<"6">>, <<"9">>, <<"0", "5">>,
     <<"5", ".", "0">>, <<" ", "6", " ">>, <<" ">>, <<>>}

RECURSIVE Join(_, _)
Join(tokens, sep) ==
    IF Len(tokens) = 1 THEN tokens[1]
    ELSE tokens[1] \o <<sep>> \o Join(Tail(tokens), sep)

\* The values _get_field_value hands over: None, or a text or numeric cell
EventCodeCells ==
    {None, NumCell(<<"5">>), NumCell(<<"5", ".", "0">>)}
    \cup {StrCell(Join(tokens, ",")) :
              tokens \in UNION {[1..k -> CodeTokens] : k \in 1..MaxTokens}}

InitCodes ==
    /\ pc = "codes"
    /\ event_type_value \in EventCodeCells
    /\ event_types = <<>>
    /\ ProcIdle
    /\ ExtractIdle
    /\ ImportIdle
    /\ BatchIdle
    /\ RunsIdle
    /\ FilesIdle
    /\ LegacyIdle

\* event_types = self._parse_event_codes(event_type_value)
ParseEventCodes ==
    /\ pc = "codes"
    /\ event_types' = parse_event_codes(event_type_value)
    /\ pc' = "parsed"
    /\ UNCHANGED <<event_type_value, procVars, extractVars, importVars, batchVars, runVars,
                 fileVars, legacyVars>>

NextCodes == ParseEventCodes

SpecCodes == InitCodes /\ [][NextCodes]_vars

\* The tokens of a cell: the pieces between the commas of its text, trimmed
TokensOf(cell) ==
    IF cell = None \/ cell.kind = "nan" THEN <<>>
    ELSE [i \in 1..Len(Split(StrOf(cell), ",")) |-> Strip(Split(StrOf(cell), ",")[i])]

\* The code table of the event-code field
CodeTable ==
    [c \in {<<"1">>, <<"2">>, <<"3">>, <<"4">>, <<"5">>, <<"6">>} |->
        CASE c = <<"1">> -> "death"
          [] c = <<"2">> -> "mi"
          [] c = <<"3">> -> "revascularization"
          [] c = <<"4">> -> "heart_failure"
          [] c = <<"5">> -> "angina"
          [] c = <<"6">> -> "hospitalization"]

(***************************************************************************)
(* C20. _parse_event_codes returns, in token order, the category of every  *)
(* token of the cell that is a code of the table and nothing for the other *)
(* tokens: an unrecognized token costs no recognized one.                  *)
(***************************************************************************)
C20_RecognizedTokensInOrder ==
    pc = "parsed" =>
        LET tokens == TokensOf(event_type_value)
            recognized == {i \in 1..Len(tokens) : tokens[i] \in DOMAIN CodeTable}
        IN /\ Len(event_types) = Cardinality(recognized)
           /\ \A i \in recognized :
                  event_types[1 + Cardinality({j \in recognized : j < i})] =
                      CodeTable[tokens[i]]

\* An unrecognized token stands between two recognized ones, which are both
\* returned.
C20_Witness ==
    /\ pc = "parsed"
    /\ TokensOf(event_type_value) = << <<"5">>, <<"9">>, <<"6">> >>
    /\ event_types = <<"angina", "hospitalization">>

(***************************************************************************)
(* Specification SpecRuns: one processor instance serves several           *)
(* process_batch calls on lists drawn from the same Timelines.             *)
(***************************************************************************)
MaxPool == 2
MaxRuns == 2

\* A record whose censored survival time runs to the processing time
StampedRecord_CensoredNow(fr, now) ==
    [f \in DOMAIN fr \cup {"processing_timestamp"} |->
        IF f = "processing_timestamp" THEN now
        ELSE IF f = "survival_time_days" /\ ~fr.event_occurred THEN now
        ELSE fr[f]]

\* The LongitudinalFollowupRecord with the field its constructor fills from
\* datetime.now (longitudinal_models.py line 209)
StampedRecord(fr, now) ==
    [f \in DOMAIN fr \cup {"processing_timestamp"} |->
        IF f = "processing_timestamp" THEN now ELSE fr[f]]

\* A Timeline whose time points process_followup sorts in place
TimelineAfterFollowup_SortedInPlace(rec) ==
    [rec EXCEPT !.time_points = SortedByMonths(rec.time_points)]

\* The Timeline handed to process_followup as the call leaves it: line 157
\* sorts a copy and nothing is assigned to patient_record
TimelineAfterFollowup(rec) == rec

\* The Timelines the caller holds: some in sheet order, some that make
\* process_followup raise
PoolRecordsOf(patient_id) ==
    LET tp6 == TimePointData(Label6, 6)
        tp12 == TimePointData(Label12, 12)
        unsorted == calculate_latest_followup(
                        LongitudinalPatientRecord(patient_id, EnrollmentDate,
                            <<[tp12 EXCEPT !.visit_date = VisitMonth12],
                              [tp6 EXCEPT !.visit_date = VisitMonth6,
                                          !.event_types = <<"mi">>]>>))
        died == calculate_latest_followup(
                    LongitudinalPatientRecord(patient_id, EnrollmentDate,
                        <<[tp6 EXCEPT !.death_date = DeathDate]>>))
    IN {unsorted, died, [died EXCEPT !.enrollment_date = None]}

Pools ==
    UNION {{recs \in [1..k -> UNION {PoolRecordsOf(BatchIds[i]) : i \in 1..k}] :
               \A i \in 1..k : recs[i].patient_id = BatchIds[i]} : k \in 1..MaxPool}

\* The index lists a call may take from the pool: all of it, all of it in
\* reverse, or one Timeline alone
Selections(n) ==
    {[i \in 1..n |-> i], [i \in 1..n |-> n + 1 - i]} \cup {<<i>> : i \in 1..n}

InitRuns ==
    /\ pc = "processor"
    /\ endpoint \in {"death", "any_event"}
    /\ patient_records \in Pools
    /\ followup_records = <<>>
    /\ clock = 0
    /\ runs = <<>>
    /\ patient_record = None
    /\ followup_record = None
    /\ ExtractIdle
    /\ ImportIdle
    /\ CodesIdle
    /\ FilesIdle
    /\ LegacyIdle

\* followup_records = processor.process_batch(records), records being some of
\* the Timelines of the pool; the call is entered in runs with its argument
\* as it was before and as it is after the call
RunProcessBatch ==
    /\ pc = "processor"
    /\ Len(runs) < MaxRuns
    /\ \E sel \in Selections(Len(patient_records)), tick \in 1..2 :
           \E given \in {[k \in 1..Len(sel) |-> patient_records[sel[k]]]} :
               \E returned \in {process_batch(endpoint, given)} :
                   \E stamped \in {[k \in 1..Len(returned) |->
                                       StampedRecord(returned[k], clock + tick + k)]} :
                       /\ followup_records' = stamped
                       /\ patient_records' =
                              [i \in 1..Len(patient_records) |->
                                  IF \E k \in 1..Len(sel) : sel[k] = i
                                  THEN TimelineAfterFollowup(patient_records[i])
                                  ELSE patient_records[i]]
                       /\ runs' = Append(runs,
                              [given |-> given,
                               left |-> [k \in 1..Len(sel) |->
                                            TimelineAfterFollowup(patient_records[sel[k]])],
                               returned |-> stamped])
                       /\ clock' = clock + tick + Len(returned)
    /\ UNCHANGED <<pc, procVars, extractVars, importVars, codeVars, fileVars, legacyVars>>

NextRuns == RunProcessBatch

SpecRuns == InitRuns /\ [][NextRuns]_vars

\* An OutcomeRecord without its processing timestamp
Unstamped(fr) == [f \in DOMAIN fr \ {"processing_timestamp"} |-> fr[f]]

ClinicalEvents(events) ==
    SelectSeq(events, LAMBDA e : e[1] \notin {"coronary_bypass", "coronary_intervention"})

\* The time point takes the back-compat path with a visit date: no death
\* date, no decoded event, the generic flag equal to 1
OnLegacyPath(tp) ==
    /\ tp.death_date = None
    /\ tp.event_types = <<>>
    /\ tp.visit_date # None
    /\ IsOne(try_parse_code(tp.cardiovascular_event))

(***************************************************************************)
(* C22. On the back-compat path with a visit date _identify_all_events     *)
(* emits exactly one clinical event, dated at the visit date: the category *)
(* of the specific-event code of the first candidate overflow field when   *)
(* the code resolves to one, and cardiovascular_event otherwise (no        *)
(* candidate field, or a code that resolves to no category).               *)
(***************************************************************************)
C22_LegacyPathEmitsOneClinicalEvent ==
    (pc = "tp_all" /\ OnLegacyPath(time_point)) =>
        LET code == get_adverse_event_code(time_point)
            category == IF code = None THEN None ELSE ADVERSE_EVENT_TYPE_CODES(code[1])
        IN ClinicalEvents(events_list) =
               << <<IF category # None THEN category[1] ELSE "cardiovascular_event",
                    time_point.visit_date>> >>

\* The procedure event a flag and its dates call for: a flag equal to 1 and
\* a date, the procedure's own if present and the visit's otherwise
ProcedureEventDue(event_type, flag, own_date, visit_date) ==
    IF IsOne(try_parse_code(flag)) /\ (own_date # None \/ visit_date # None)
    THEN << <<event_type, IF own_date # None THEN own_date ELSE visit_date>> >>
    ELSE <<>>

(***************************************************************************)
(* C23. For a time point without a death date _identify_all_events emits a *)
(* coronary_bypass event iff the bypass flag is 1 and a date is available, *)
(* dated at bypass_date if present else visit_date, and likewise a         *)
(* coronary_intervention event; both come after the clinical events,       *)
(* whether or not there are any.                                           *)
(***************************************************************************)
C23_ProcedureEventsAppended ==
    (pc = "tp_all" /\ time_point.death_date = None) =>
        events_list =
            ClinicalEvents(events_list)
            \o ProcedureEventDue("coronary_bypass", time_point.coronary_bypass,
                                 time_point.bypass_date, time_point.visit_date)
            \o ProcedureEventDue("coronary_intervention", time_point.coronary_intervention,
                                 time_point.intervention_date, time_point.visit_date)

\* Two clinical events are followed by a bypass at its own date and an
\* intervention at the visit date.
C23_Witness ==
    /\ pc = "tp_all"
    /\ time_point.death_date = None
    /\ Len(events_list) = 4
    /\ events_list[1][1] = "angina"
    /\ events_list[3] = <<"coronary_bypass", VisitMonth12>>
    /\ events_list[4] = <<"coronary_intervention", VisitMonth6>>

(***************************************************************************)
(* Specification SpecProcedures: process_followup on Timelines of          *)
(* procedure flags, with and without visit, death and procedure dates.     *)
(***************************************************************************)
ProcedureTimePointsAt(label, months, visit, type) ==
    LET base == TimePointData(label, months)
        seen == [base EXCEPT !.visit_date = visit]
    IN {seen,
        [seen EXCEPT !.coronary_intervention = <<"1">>],
        [seen EXCEPT !.coronary_intervention = <<"1">>,
                     !.intervention_date = BeforeEnrollment],
        [base EXCEPT !.coronary_intervention = <<"1">>,
                     !.intervention_date = BeforeEnrollment],
        [seen EXCEPT !.coronary_intervention = <<"1">>, !.death_date = DeathDate],
        [seen EXCEPT !.coronary_bypass = <<"1">>, !.bypass_date = BeforeEnrollment],
        [base EXCEPT !.coronary_bypass = <<"1">>, !.bypass_date = BeforeEnrollment],
        [seen EXCEPT !.coronary_bypass = <<"1", ".", "0">>, !.death_date = DeathDate],
        [seen EXCEPT !.revascularization_treatment = <<"1">>,
                     !.revascularization_type = type,
                     !.revascularization_detail = label],
        [seen EXCEPT !.raw_data = [k \in {"coronary_ct"} |-> <<"1">>]]}

ProcedureTimelines ==
    UNION {[1..k -> ProcedureTimePointsAt(Label6, 6, VisitMonth6, <<"P", "C", "I">>)
                    \cup ProcedureTimePointsAt(Label12, 12, VisitMonth12,
                                               <<"C", "A", "B", "G">>)] :
               k \in 0..MaxTimePoints}

InitProcedures ==
    /\ pc = "assembled"
    /\ endpoint = "death"
    /\ patient_record \in
           {calculate_latest_followup(LongitudinalPatientRecord("P1", EnrollmentDate, tps)) :
                tps \in ProcedureTimelines}
    /\ followup_record = None
    /\ ExtractIdle
    /\ ImportIdle
    /\ BatchIdle
    /\ CodesIdle
    /\ RunsIdle
    /\ FilesIdle
    /\ LegacyIdle

NextProcedures == ProcessFollowup

SpecProcedures == InitProcedures /\ [][NextProcedures]_vars

\* The procedure-tracking slots, each with the flag of a time point that
\* sets it and the date of its own the time point may carry
ProcedureSlots ==
    {"coronary_ct", "coronary_angiography", "coronary_intervention", "coronary_bypass",
     "revascularization_treatment"}

SlotFlagged(slot, tp) ==
    /\ tp.visit_date # None
    /\ CASE slot \in {"coronary_angiography", "coronary_intervention"} ->
                IsOne(try_parse_code(tp.coronary_intervention))
         [] slot = "coronary_bypass" -> IsOne(try_parse_code(tp.coronary_bypass))
         [] slot = "revascularization_treatment" ->
                IsOne(try_parse_code(tp.revascularization_treatment))
         [] slot = "coronary_ct" ->
                \E k \in (DOMAIN tp.raw_data) \cap KeyNamesCT :
                    IsOne(try_parse_code(tp.raw_data[k]))

SlotOwnDate(slot, tp) ==
    CASE slot \in {"coronary_angiography", "coronary_intervention"} -> tp.intervention_date
      [] slot = "coronary_bypass" -> tp.bypass_date
      [] slot = "revascularization_treatment" -> tp.revascularization_date
      [] slot = "coronary_ct" -> None

\* The fields of the OutcomeRecord that report a slot
SlotOf(fr, slot) ==
    CASE slot = "coronary_ct" ->
             [has |-> fr.has_coronary_ct, date |-> fr.first_coronary_ct_date,
              time_point |-> fr.first_coronary_ct_time_point, type |-> None, detail |-> None]
      [] slot = "coronary_angiography" ->
             [has |-> fr.has_coronary_angiography,
              date |-> fr.first_coronary_angiography_date,
              time_point |-> fr.first_coronary_angiography_time_point,
              type |-> None, detail |-> None]
      [] slot = "coronary_intervention" ->
             [has |-> fr.has_coronary_intervention,
              date |-> fr.first_coronary_intervention_date,
              time_point |-> fr.first_coronary_intervention_time_point,
              type |-> None, detail |-> None]
      [] slot = "coronary_bypass" ->
             [has |-> fr.has_coronary_bypass, date |-> fr.first_coronary_bypass_date,
              time_point |-> fr.first_coronary_bypass_time_point,
              type |-> None, detail |-> None]
      [] slot = "revascularization_treatment" ->
             [has |-> fr.has_revascularization_treatment,
              date |-> fr.first_revascularization_treatment_date,
              time_point |-> fr.first_revascularization_treatment_time_point,
              type |-> fr.first_revascularization_treatment_type,
              detail |-> fr.first_revascularization_treatment_detail]

(***************************************************************************)
(* C24. In every OutcomeRecord the angiography fields equal the            *)
(* intervention fields (flag, first date, first time point), and every     *)
(* procedure slot holds what the first time point of the ascending-month   *)
(* scan that sets it gave: later time points change neither its date nor   *)
(* its time point, type or detail.                                         *)
(***************************************************************************)
C24_ProcedureSlotsFirstSeenWins ==
    Processed =>
        LET fr == followup_record
            scan == SortedByMonths(patient_record.time_points)
        IN /\ SlotOf(fr, "coronary_angiography") = SlotOf(fr, "coronary_intervention")
           /\ \A slot \in ProcedureSlots :
                  LET hits == {i \in 1..Len(scan) : SlotFlagged(slot, scan[i])} IN
                  IF hits = {}
                  THEN SlotOf(fr, slot) = [has |-> FALSE, date |-> None, time_point |-> None,
                                           type |-> None, detail |-> None]
                  ELSE LET tp == scan[CHOOSE i \in hits : \A j \in hits : i <= j] IN
                       /\ SlotOf(fr, slot).has
                       /\ SlotOf(fr, slot).date =
                              (IF SlotOwnDate(slot, tp) # None THEN SlotOwnDate(slot, tp)
                               ELSE tp.visit_date)
                       /\ SlotOf(fr, slot).time_point = tp.time_point
                       /\ slot = "revascularization_treatment" =>
                              /\ SlotOf(fr, slot).type = tp.revascularization_type
                              /\ SlotOf(fr, slot).detail = tp.revascularization_detail

\* Two time points, given in descending month order, both set the
\* revascularization-treatment slot with different types; the record keeps
\* the month-6 one.
C24_Witness ==
    /\ Processed
    /\ Len(patient_record.time_points) = 2
    /\ patient_record.time_points[1].months = 12
    /\ patient_record.time_points[2].months = 6
    /\ SlotFlagged("revascularization_treatment", patient_record.time_points[1])
    /\ SlotFlagged("revascularization_treatment", patient_record.time_points[2])
    /\ followup_record.first_revascularization_treatment_type = <<"P", "C", "I">>
    /\ followup_record.first_revascularization_treatment_date = VisitMonth6

\* The dates of the events of a type in the order the scan meets them
EmittedDatesOf(rec, event_type) ==
    LET scan == ScanOrder(SortedByMonths(rec.time_points))
        of == SelectSeq(scan, LAMBDA e : e[1] = event_type)
    IN [k \in 1..Len(of) |-> of[k][2]]

(***************************************************************************)
(* C29. The procedure flags of the OutcomeRecord agree with the Event      *)
(* Extractor for every Timeline: has_coronary_bypass is true iff a         *)
(* coronary_bypass event was emitted at some time point, and the first     *)
(* bypass date is the date of the first such event of the ascending-month  *)
(* scan; likewise for coronary_intervention; time points with a death date *)
(* or without a visit date included.                                       *)
(***************************************************************************)
C29_ProcedureFlagsAgreeWithEvents ==
    Processed =>
        \A slot \in {"coronary_bypass", "coronary_intervention"} :
            LET dates == EmittedDatesOf(patient_record, slot)
                reported == SlotOf(followup_record, slot)
            IN /\ reported.has <=> dates # <<>>
               /\ dates # <<>> => reported.date = dates[1]

(***************************************************************************)
(* C28. In every OutcomeRecord of process_followup the summary flags agree *)
(* with the rest of the record: has_death iff first_death_date is set,     *)
(* has_cardiovascular_event iff a clinical event was recorded,             *)
(* has_lost_to_followup iff a time point is flagged lost to follow-up,     *)
(* that is iff total_followup_status is lost_to_followup.                  *)
(***************************************************************************)
C28_SummaryFlagsAgree ==
    Processed =>
        LET fr == followup_record IN
        /\ fr.has_death <=> fr.first_death_date # None
        /\ fr.has_cardiovascular_event <=>
               \E c \in ClinicalCategories : FirstOccurrence(fr, c).date # None
        /\ fr.has_lost_to_followup <=>
               \E i \in 1..Len(patient_record.time_points) :
                   patient_record.time_points[i].is_lost_to_followup
        /\ fr.has_lost_to_followup <=> fr.total_followup_status = "lost_to_followup"

(***************************************************************************)
(* Specification SpecLoads: one importer is given file after file.         *)
(***************************************************************************)
\* A sheet of a file: its DataFrame, and whether pd.read_excel reads it
SheetOf(name, patient_id, reads) ==
    [df |-> [name |-> name, columns |-> SheetColumns,
             rows |-> <<SubjectRow(patient_id, StrCell(EnrollmentText))>>],
     reads |-> reads]

\* The files the importer can be pointed at: whether the path exists and
\* opens, and the sheets of the workbook in their order
FileSystem ==
    [path \in {"visits_a.xlsx", "visits_b.xlsx", "baseline.xlsx", "damaged.xlsx",
               "partly.xlsx", "absent.xlsx"} |->
        CASE path = "visits_a.xlsx" ->
                 [exists |-> TRUE,
                  sheets |-> <<SheetOf(Label6, "P1", TRUE), SheetOf(Label12, "P1", TRUE)>>]
          [] path = "visits_b.xlsx" ->
                 [exists |-> TRUE,
                  sheets |-> <<SheetOf(Label36, "P2", TRUE), SheetOf(Label6, "P2", TRUE)>>]
          [] path = "baseline.xlsx" ->
                 [exists |-> TRUE, sheets |-> <<SheetOf(BasicInfoLabel, "P1", TRUE)>>]
          [] path = "damaged.xlsx" ->
                 [exists |-> TRUE, sheets |-> <<SheetOf(Label12, "P2", FALSE)>>]
          [] path = "partly.xlsx" ->
                 [exists |-> TRUE,
                  sheets |-> <<SheetOf(Label36, "P1", TRUE),
                               SheetOf(UnrecognizedLabel, "P1", FALSE)>>]
          [] path = "absent.xlsx" -> [exists |-> FALSE, sheets |-> <<>>]]

\* The DataFrames of the sheets of a file that read, in sheet order
ReadSheets(file) ==
    LET reading == SelectSeq(file.sheets, LAMBDA sh : sh.reads)
    IN [i \in 1..Len(reading) |-> reading[i].df]

\* load_excel_file(path) on an importer holding sheets: the new sheet_data
\* and the value returned
LoadOutcome(sheets, path) ==
    IF ~FileSystem[path].exists
    THEN [sheet_data |-> sheets, returned |-> FALSE]
    ELSE [sheet_data |-> load_excel_file(sheets, ReadSheets(FileSystem[path])),
          returned |-> Len(load_excel_file(sheets, ReadSheets(FileSystem[path]))) > 0]

\* ok = importer.load_excel_file(path), on a new importer or one that has
\* loaded before
LoadExcelFilePath ==
    /\ pc \in {"importer", "loaded", "load_failed"}
    /\ \E path \in DOMAIN FileSystem :
           \E outcome \in {LoadOutcome(sheet_data, path)} :
               /\ file_path' = <<path>>
               /\ excel_file' = IF FileSystem[path].exists THEN <<path>> ELSE excel_file
               /\ sheet_data' = outcome.sheet_data
               /\ pc' = IF outcome.returned THEN "loaded" ELSE "load_failed"
    /\ UNCHANGED <<sheet_name, time_point_info, procVars, extractVars,
                 batchVars, codeVars, runVars, legacyVars>>

NextLoads == LoadExcelFilePath

SpecLoads == InitImport /\ [][NextLoads]_vars

\* The tables of a sequence of DataFrames
TablesIn(sheets) == {sheets[i] : i \in 1..Len(sheets)}

(***************************************************************************)
(* C30. After any sequence of load_excel_file calls on one importer,       *)
(* sheet_data holds exactly the tables of the source loaded last, none of  *)
(* an earlier source, and the last call returned true iff at least one     *)
(* table of the source given in it was loaded.                             *)
(***************************************************************************)
C30_SheetDataIsLastSource ==
    pc \in {"loaded", "load_failed"} =>
        /\ excel_file # None =>
               TablesIn(sheet_data) = TablesIn(ReadSheets(FileSystem[excel_file[1]]))
        /\ (pc = "loaded") <=> (ReadSheets(FileSystem[file_path[1]]) # <<>>)

(***************************************************************************)
(* The legacy single-point engine: EventInfo and                           *)
(* EventProcessor.find_first_event.                                        *)
(***************************************************************************)
\* EventInfo(event_type=..., event_date=..., days_from_enrollment=...,
\* data_source=...): the object, or None when pydantic raises
\* ValidationError.  The three first fields are required; no validator
\* constrains the value of any field.
EventInfo(event_type, event_date, days_from_enrollment, data_source) ==
    IF event_type = None \/ event_date = None \/ days_from_enrollment = None
    THEN None
    ELSE <<[event_type |-> event_type[1], event_date |-> event_date,
            days_from_enrollment |-> days_from_enrollment[1],
            data_source |-> data_source]>>

\* float('inf') as a priority
Infinity == <<>>

\* config 'events.types': death and myocardial_infarction carry a priority,
\* stroke carries none
EventTypesConfig ==
    [t \in {"death", "myocardial_infarction", "stroke"} |->
        CASE t = "death" -> [field_names |-> <<"death_date">>, priority |-> <<1>>]
          [] t = "myocardial_infarction" -> [field_names |-> <<"mi_date">>, priority |-> <<2>>]
          [] t = "stroke" -> [field_names |-> <<"stroke_date">>, priority |-> Infinity]]

\* priority_order.get(event_type, float('inf'))
PriorityOf(priority_order, event_type) ==
    IF event_type \in DOMAIN priority_order THEN priority_order[event_type] ELSE Infinity

\* a < b on priorities
PriorityLess(a, b) == a # Infinity /\ (b = Infinity \/ a[1] < b[1])

\* sorted(events, key=lambda e: e.event_date): stable insertion
RECURSIVE InsertByDate(_, _)
InsertByDate(sorted, e) ==
    IF sorted = <<>> THEN <<e>>
    ELSE IF DateLess(e.event_date, Head(sorted).event_date)
         THEN <<e>> \o sorted
         ELSE <<Head(sorted)>> \o InsertByDate(Tail(sorted), e)

RECURSIVE SortedByDate(_)
SortedByDate(events) ==
    IF events = <<>> THEN <<>>
    ELSE InsertByDate(SortedByDate(SubSeq(events, 1, Len(events) - 1)), events[Len(events)])

\* same_date_events.sort(key=lambda e: priority_order.get(e.event_type, inf))
RECURSIVE InsertByPriority(_, _, _)
InsertByPriority(sorted, e, priority_order) ==
    IF sorted = <<>> THEN <<e>>
    ELSE IF PriorityLess(PriorityOf(priority_order, e.event_type),
                         PriorityOf(priority_order, Head(sorted).event_type))
         THEN <<e>> \o sorted
         ELSE <<Head(sorted)>> \o InsertByPriority(Tail(sorted), e, priority_order)

RECURSIVE SortedByPriority(_, _)
SortedByPriority(events, priority_order) ==
    IF events = <<>> THEN <<>>
    ELSE InsertByPriority(SortedByPriority(SubSeq(events, 1, Len(events) - 1), priority_order),
                          events[Len(events)], priority_order)

\* the default of priority_order: a priority for every configured type
ConfiguredPriorityOrder == [t \in DOMAIN EventTypesConfig |-> EventTypesConfig[t].priority]

find_first_event_EarliestInList(events, priority_order) ==
    IF events = <<>> THEN <<None, 0>>
    ELSE <<<<SortedByDate(events)[1]>>, Len(events)>>

\* EventProcessor.find_first_event(events, priority_order): the tuple
\* (first event, number of events)
find_first_event(events, priority_order) ==
    IF events = <<>> THEN <<None, 0>>
    ELSE LET order == IF priority_order = None THEN ConfiguredPriorityOrder
                      ELSE priority_order[1]
             earliest_date == SortedByDate(events)[1].event_date
             same_date_events == SelectSeq(events, LAMBDA e : e.event_date = earliest_date)
         IN <<<<SortedByPriority(same_date_events, order)[1]>>, Len(events)>>

(***************************************************************************)
(* Specification SpecLegacy: EventInfo objects are constructed one by one  *)
(* and the list of them is handed to find_first_event.                     *)
(***************************************************************************)
MaxEvents == 3

LegacyEventTypes == {"death", "myocardial_infarction", "stroke"}
LegacyEventDates == {<<2021, 3, 10>>, <<2021, 6, 15>>}
LegacyDays       == {<<-10>>, <<100>>, None}

\* The priority_order arguments: absent, or a caller's own order
PriorityOrders ==
    {None, <<[t \in {"stroke", "death"} |-> IF t = "stroke" THEN <<1>> ELSE <<2>>]>>}

InitLegacy ==
    /\ pc = "legacy"
    /\ endpoint = "death"
    /\ patient_record = None
    /\ followup_record = None
    /\ ExtractIdle
    /\ ImportIdle
    /\ BatchIdle
    /\ CodesIdle
    /\ RunsIdle
    /\ FilesIdle
    /\ LegacyIdle

\* event = EventInfo(...); on success the event joins the list
CreateEventInfo ==
    /\ pc \in {"legacy", "created", "validation_error"}
    /\ Len(event_infos) < MaxEvents
    /\ \E type \in LegacyEventTypes, event_date \in LegacyEventDates, days \in LegacyDays :
           \E made \in {EventInfo(<<type>>, event_date, days, None)} :
               IF made = None
               THEN /\ pc' = "validation_error"
                    /\ UNCHANGED event_infos
               ELSE /\ pc' = "created"
                    /\ event_infos' = Append(event_infos, made[1])
    /\ UNCHANGED <<first_event_result, procVars, extractVars, importVars, batchVars,
                 codeVars, runVars, fileVars>>

\* first_event, total = processor.find_first_event(events, priority_order)
FindFirstEvent ==
    /\ pc \in {"legacy", "created", "validation_error"}
    /\ \E priority_order \in PriorityOrders :
           first_event_result' =
               <<[priority_order |-> priority_order,
                  returned |-> find_first_event(event_infos, priority_order)]>>
    /\ pc' = "found"
    /\ UNCHANGED <<event_infos, procVars, extractVars, importVars, batchVars,
                 codeVars, runVars, fileVars>>

NextLegacy == CreateEventInfo \/ FindFirstEvent

SpecLegacy == InitLegacy /\ [][NextLegacy]_vars

\* The priority order a find_first_event call works with
EffectiveOrder(priority_order) ==
    IF priority_order = None THEN ConfiguredPriorityOrder ELSE priority_order[1]

\* e is an event of the list with the minimum date and, among the events of
\* that date, the smallest priority number
IsFirstOf(e, events, order) ==
    /\ \E i \in 1..Len(events) : events[i] = e
    /\ \A i \in 1..Len(events) : ~DateLess(events[i].event_date, e.event_date)
    /\ \A i \in 1..Len(events) :
           events[i].event_date = e.event_date =>
               ~PriorityLess(PriorityOf(order, events[i].event_type),
                             PriorityOf(order, e.event_type))

(***************************************************************************)
(* C26. For a non-empty event list find_first_event returns (e, n) where n *)
(* is the number of events of the list and e is an event of the list with  *)
(* the minimum event date and, among the events sharing that date, the     *)
(* smallest priority number; for an empty list it returns (None, 0).       *)
(***************************************************************************)
C26_FirstEventIsEarliestThenPriority ==
    pc = "found" =>
        LET call == first_event_result[1]
        IN IF event_infos = <<>>
           THEN call.returned = <<None, 0>>
           ELSE /\ call.returned[2] = Len(event_infos)
                /\ call.returned[1] # None
                /\ IsFirstOf(call.returned[1][1], event_infos,
                             EffectiveOrder(call.priority_order))

\* Two events share the earliest date, the later one in the list has the
\* smaller priority number and is the one returned
C26_Witness ==
    /\ pc = "found"
    /\ Len(event_infos) = 3
    /\ first_event_result[1].priority_order = None
    /\ event_infos[1].event_date = event_infos[2].event_date
    /\ DateLess(event_infos[1].event_date, event_infos[3].event_date)
    /\ event_infos[1].event_type = "myocardial_infarction"
    /\ event_infos[2].event_type = "death"
    /\ first_event_result[1].returned = <<<<event_infos[2]>>, 3>>

(***************************************************************************)
(* C27. Constructing an EventInfo with a negative days_from_enrollment is  *)
(* rejected with a validation error: no EventInfo with negative            *)
(* days_from_enrollment exists.                                            *)
(***************************************************************************)
C27_NoNegativeDaysFromEnrollment ==
    \A i \in 1..Len(event_infos) : event_infos[i].days_from_enrollment >= 0

====
